---- MODULE Spec2Model ----
(***************************************************************************)
(* A model of agent_core: the SQLite-backed SharedStateStore (memory       *)
(* table, action queue with idempotency keys, claim and status             *)
(* transitions, all serialised by one lock), the CircuitBreaker, and the   *)
(* Scheduler cycle that drives the terminal and the browser worker under   *)
(* a watchdog.                                                             *)
(*                                                                         *)
(* The specifications share the variables:                                 *)
(*   StoreSpec    independent callers invoke the store's operations        *)
(*   MemorySpec   callers set and get memory documents beside the queue    *)
(*   BreakerSpec  any sequence of can_run / success / fail on one breaker  *)
(*   ConfigSpec   Scheduler.__init__ reads a configuration file            *)
(*   Spec         the scheduler loop with its two workers and adapters     *)
(*   FairSpec     Spec, where a step is taken whenever one is possible     *)
(*   CalmSpec     the runs of Spec in which nothing fails, with fairness   *)
(*   FaultSpec    the runs in which store operations fail, with fairness   *)
(*   VetSpec      the loop over a store that holds queued commands         *)
(*   TraceSpec    the calm runs with the event log recorded                *)
(*   CrashSpec    the calm runs with the process killed and restarted      *)
(*   CadenceSpec  the calm runs with the time of each cycle recorded       *)
(*   TracerSpec   threads calling EventTracer.emit concurrently            *)
(*   LockSpec     one cycle of Spec with each store call taken in steps    *)
(*   PatternSpec  cycle after cycle of one worker's watchdog task          *)
(*   AdapterSpec  one process_cycle of a platform adapter, with fairness   *)
(***************************************************************************)
EXTENDS Integers, Sequences, FiniteSets, TLC

\* ------------------------------------------------------------------ bounds
MaxRows == 2         \* rows the callers of StoreSpec may insert
MaxLimit == 2        \* largest limit passed to claim_actions in StoreSpec
MaxThreshold == 3    \* largest configured breaker_failure_threshold in BreakerSpec
MaxCooldown == 2     \* largest configured breaker_cooldown_cycles in BreakerSpec
MaxCalls == 6        \* breaker calls recorded in BreakerSpec
MaxCycles == 2       \* scheduler cycles started in Spec
MaxFaults == 2       \* storage and execution failures injected in Spec
SleepTicks == 1      \* longest inter-cycle sleep, in ticks
MaxAdapters == 2     \* platform adapters, the first of PLATFORM_ADAPTERS
MaxElapsed == 2      \* longest time a cycle's work takes, in ticks
MaxJitter == 1       \* largest jitter, in ticks, in CadenceSpec and AdapterSpec
MaxDocValue == 1     \* largest number in a document given to set_memory in MemorySpec
MaxEmits == 3        \* records emitted in TracerSpec
MaxKills == 1        \* times the process is killed and started again in CrashSpec
MaxValue == 2        \* largest integer a numeric configuration field is given in ConfigSpec
MaxRetries == 2      \* largest max_retries of a RateLimitPolicy in AdapterSpec
MaxRaises == 3       \* calls of an adapter's methods that raise in AdapterSpec

\* limit=10 of the workers' claim_actions calls
ClaimLimit == 10

Workers == {"terminal", "browser"}
Callers == {"c1", "c2"}
Threads == Callers \cup Workers
Payloads == {"p1", "p2"}
Terminal == {"done", "failed"}

Min(a, b) == IF a <= b THEN a ELSE b
Max(a, b) == IF a >= b THEN a ELSE b
Range(s) == {s[i] : i \in DOMAIN s}

\* idempotency keys: 1 .. MaxRows for the callers of StoreSpec; in Spec the
\* sha256 of the terminal command (0) and of each browser fingerprint (cursor + 1)
TerminalKey == 0
BrowserKey(cursor) == cursor + 1
Keys == 1 .. MaxRows
AllKeys == 0 .. Max(MaxRows, MaxCycles + 1)
AllIds == 1 .. Max(MaxRows, MaxCycles + 1) + 1
\* ids of the rows a run can hold: those present at startup, the terminal
\* worker's one, and one of the browser worker per cycle
ActIds == 1 .. MaxRows + MaxCycles + 1

VARIABLES
  rows,       \* table queued_actions: rows[i] is the row with id i
  memory,     \* table memory: per key, whether it has a row and the row's value
  lock,       \* SharedStateStore._lock: "free" or the thread holding it
  call,       \* per thread: the store call it is executing
  created,    \* history: per key, how many queue_action calls of the callers returned true
  claimCount, \* history: per id, how many claim_actions calls of the callers returned it
  run,        \* history: per worker, the current run of back-to-back claims of the callers
  lastSet,    \* history: per memory key, the document of the latest set_memory
  breaker,    \* Scheduler._breakers: failure_threshold, cooldown_cycles, failures, cooldown_remaining
  hist,       \* history: the calls made on the breaker in BreakerSpec, with results
  startup,    \* Scheduler.__init__: how far it is, the "scheduler" section of the
              \* configuration file, and the SchedulerConfig parsed from it
  spc,        \* where Scheduler.run is
  cycle,      \* cycles started
  shutdown,   \* shutdown_event
  timer,      \* what is left of the timeout of shutdown_event.wait
  platforms,  \* raw_config["platforms"]: per adapter, the value of its "enabled" entry
  apc,        \* adapters the loop of _run_platform_adapters has visited
  arun,       \* whether the adapter just visited is in process_cycle
  afail,      \* history: whether an adapter has raised
  wpc,        \* per worker: where its _run_worker_with_watchdog task is
  rpc,        \* per worker: where its run_cycle invocation is
  todo,       \* per worker: the claimed actions not yet marked, first the one in hand
  task,       \* the cursor of the task the browser worker extracted
  tracing,    \* whether this specification records the order of the whole log
  events,     \* history: logs/events.jsonl from the latest cycle_started on
  emitted,    \* history: per worker, the events of the current cycle that name it
  faults,     \* failures injected so far
  ops,        \* history: per worker, store calls made in the current cycle
  bcalls,     \* history: per worker, breaker calls made in the current cycle
  cd0,        \* history: per worker, cooldown_remaining when the cycle started
  batch,      \* history: per worker, the actions its run_cycle claimed in the current cycle
  xfail,      \* history: per worker, the action whose execution failed in the current
              \* cycle (0: none), and whether marking it failed raised
  dry_run,    \* SchedulerConfig.dry_run, handed to both workers
  acts,       \* history: per action id, what has been done with it so far (the
              \* action_queued event, the started event, the side effect, the
              \* completed event)
  pace,       \* the cycle's jitter, and history: the elapsed time it measured and
              \* the time it has slept since
  tracer,     \* EventTracer: its lock, the chunks written to logs/events.jsonl, and
              \* where each thread is in emit
  adapter,    \* a PlatformAdapter in process_cycle: its capabilities and policy,
              \* where the cycle and its _with_retry are, the draft, and history:
              \* the calls made on the adapter's methods
  crash       \* history: how often the process was killed and started again, and
              \* the actions that were in processing at a kill

storeVars == <<rows, memory, lock, call>>
storeHist == <<created, claimCount, run, lastSet>>
breakerVars == <<breaker, hist>>
adapterVars == <<platforms, apc, arun, afail>>
schedVars_but_tracer == <<startup, spc, cycle, shutdown, timer, platforms, apc, arun, afail, wpc, rpc, todo, task, tracing, events, emitted, ops, bcalls, cd0,
              batch, xfail, dry_run, acts, crash, pace>>
schedVars == <<schedVars_but_tracer, tracer, adapter>>
vars == <<rows, memory, lock, call, created, claimCount, run, lastSet, breaker, hist,
          startup, spc, cycle, shutdown, timer, platforms, apc, arun, afail, wpc, rpc, todo, task, tracing, events, emitted, faults,
          ops, bcalls, cd0, batch, xfail, dry_run, acts, crash, pace, tracer, adapter>>

\* ------------------------------------------------------- SharedStateStore
Ids(rs) == DOMAIN rs

\* ------------------------------------------------------------ table memory
\* the keys of the table: the one the browser worker uses, and another one
MemKeys == {"browser.tasks", "notes"}

\* a document is a JSON object with integer values: a function from some of
\* these field names, listed in sorted order
FieldOrder == <<"cursor", "page">>
EmptyDoc == [f \in {} |-> 0]
Docs == UNION {[fs -> 0 .. MaxDocValue] : fs \in SUBSET Range(FieldOrder)}

\* the default argument of get_memory: None, or a document
None == [none |-> TRUE, doc |-> EmptyDoc]
Some(doc) == [none |-> FALSE, doc |-> doc]
Defaults == {None} \cup {Some(doc) : doc \in Docs}

\* json.dumps(value, sort_keys=True): the fields in sorted order, each with its value
Encode(doc) ==
  LET fs == SelectSeq(FieldOrder, LAMBDA f : f \in DOMAIN doc)
  IN [i \in 1 .. Len(fs) |-> <<fs[i], doc[fs[i]]>>]

\* json.loads(str(row["value"]))
Decode(text) ==
  [f \in {text[i][1] : i \in DOMAIN text} |->
     text[CHOOSE i \in DOMAIN text : text[i][1] = f][2]]

NoRow == [present |-> FALSE, value |-> <<>>]
NoMemory == [k \in MemKeys |-> NoRow]

\* (mutant) INSERT OR IGNORE: a key that has a row keeps it
UpsertIgnore(mem, k, text) ==
  IF mem[k].present THEN mem ELSE [mem EXCEPT ![k] = [present |-> TRUE, value |-> text]]

\* INSERT INTO memory ... ON CONFLICT(key) DO UPDATE SET value=excluded.value
Upsert(mem, k, text) == [mem EXCEPT ![k] = [present |-> TRUE, value |-> text]]

\* get_memory: if not row: return default or {}; return json.loads(...)
GetMemory(mem, k, default) ==
  IF ~mem[k].present
    THEN IF default.none \/ default.doc = EmptyDoc THEN EmptyDoc ELSE default.doc
    ELSE Decode(mem[k].value)

NeverSet == [k \in MemKeys |-> None]

\* prev is history: the status mark_action_status found in the row it updated
NoCall ==
  [op |-> "none", pc |-> "idle", worker |-> "none", payload |-> "none", key |-> 0,
   limit |-> 0, id |-> 0, status |-> "none", sel |-> <<>>, res |-> FALSE, prev |-> "none",
   mkey |-> "none", doc |-> EmptyDoc, default |-> None, out |-> EmptyDoc]

SetCall(k, doc) ==
  [NoCall EXCEPT !.op = "set_memory", !.pc = "upsert", !.mkey = k, !.doc = doc]

GetCall(k, default) ==
  [NoCall EXCEPT !.op = "get_memory", !.pc = "read", !.mkey = k, !.default = default]

QueueCall(w, p, k) ==
  [NoCall EXCEPT !.op = "queue_action", !.pc = "insert", !.worker = w, !.payload = p, !.key = k]

ClaimCall(w, n) ==
  [NoCall EXCEPT !.op = "claim_actions", !.pc = "select", !.worker = w, !.limit = n]

MarkCall(i, s) ==
  [NoCall EXCEPT !.op = "mark_action_status", !.pc = "update", !.id = i, !.status = s]

\* the UNIQUE constraint on idempotency_key
KeyPresent(rs, k) == \E i \in Ids(rs) : rs[i].idempotency_key = k

\* (mutant) the INSERT without the UNIQUE constraint
InsertRowNoUnique(rs, w, p, k) ==
  Append(rs, [worker |-> w, payload |-> p, idempotency_key |-> k, status |-> "queued"])

\* INSERT INTO queued_actions ... VALUES (?, ?, ?, ?, 'queued', ?, ?): the new row
\* gets the next AUTOINCREMENT id; IntegrityError leaves the table as it was
InsertRow(rs, w, p, k) ==
  IF KeyPresent(rs, k)
    THEN rs
    ELSE Append(rs, [worker |-> w, payload |-> p, idempotency_key |-> k, status |-> "queued"])

\* (mutant) the IntegrityError is not turned into False
InsertCreatedAlways(rs, k) == TRUE

\* return True, or return False on sqlite3.IntegrityError
InsertCreated(rs, k) == ~KeyPresent(rs, k)

\* WHERE worker = ? AND status = 'queued'
QueuedIds(rs, w) == {i \in Ids(rs) : rs[i].worker = w /\ rs[i].status = "queued"}

RECURSIVE Ascending(_)
Ascending(S) ==
  IF S = {} THEN <<>>
  ELSE LET m == CHOOSE x \in S : \A y \in S : x <= y
       IN <<m>> \o Ascending(S \ {m})

\* (mutant) the SELECT without AND status = 'queued'
SelectQueuedAnyStatus(rs, w, n) ==
  LET all == Ascending({i \in Ids(rs) : rs[i].worker = w})
  IN SubSeq(all, 1, Min(n, Len(all)))

\* (mutant) ORDER BY id DESC
SelectQueuedDesc(rs, w, n) ==
  LET all == Ascending(QueuedIds(rs, w))
  IN SubSeq(all, Len(all) - Min(n, Len(all)) + 1, Len(all))

\* SELECT ... ORDER BY id ASC LIMIT ?
SelectQueued(rs, w, n) ==
  LET all == Ascending(QueuedIds(rs, w))
  IN SubSeq(all, 1, Min(n, Len(all)))

\* (mutant) the UPDATE without its WHERE clause
UpdateStatusAll(rs, ids, s) ==
  [i \in Ids(rs) |-> [rs[i] EXCEPT !.status = s]]

\* UPDATE queued_actions SET status = ? WHERE id IN (...)
UpdateStatus(rs, ids, s) ==
  [i \in Ids(rs) |-> IF i \in ids THEN [rs[i] EXCEPT !.status = s] ELSE rs[i]]

\* (mutant) a lock that excludes nobody
LockFreeAlways == TRUE

\* with self._lock: the lock is taken only when no thread holds it
LockFree == lock = "free"

NoRun == [active |-> FALSE, q0 |-> {}, lim |-> 0, got |-> {}]

\* history kept when a caller enters its critical section: a run of claims of one
\* worker starts with the ids queued at that moment, and ends at any other call
RunOnEnter(t, c) ==
  IF t \notin Callers THEN run
  ELSE IF c.op = "claim_actions"
    THEN [w \in Workers |->
            IF w # c.worker THEN NoRun
            ELSE IF run[w].active
              THEN [run[w] EXCEPT !.lim = Min(run[w].lim + c.limit, MaxRows + 1)]
              ELSE [active |-> TRUE, q0 |-> QueuedIds(rows, w),
                    lim |-> Min(c.limit, MaxRows + 1), got |-> {}]]
    ELSE [w \in Workers |-> NoRun]

\* a thread enters a store operation: with self._lock, self._connect() as connection
Enter(t, c) ==
  /\ call[t].pc = "idle"
  /\ LockFree
  /\ lock' = t
  /\ call' = [call EXCEPT ![t] = c]
  /\ run' = RunOnEnter(t, c)
  /\ UNCHANGED <<rows, memory, created, claimCount, lastSet, breakerVars>>

\* queue_action: the INSERT, and the value the call will return
StoreInsert(t) ==
  /\ call[t].op = "queue_action" /\ call[t].pc = "insert"
  /\ rows' = InsertRow(rows, call[t].worker, call[t].payload, call[t].key)
  /\ call' = [call EXCEPT ![t].pc = "release",
                          ![t].res = InsertCreated(rows, call[t].key)]
  /\ UNCHANGED <<memory, lock, storeHist, breakerVars, schedVars, faults>>

\* claim_actions: the SELECT
StoreSelect(t) ==
  /\ call[t].op = "claim_actions" /\ call[t].pc = "select"
  /\ call' = [call EXCEPT ![t].pc = "flip",
                          ![t].sel = SelectQueued(rows, call[t].worker, call[t].limit)]
  /\ UNCHANGED <<rows, memory, lock, storeHist, breakerVars, schedVars, faults>>

\* claim_actions: if ids: UPDATE ... SET status = 'processing' WHERE id IN (ids)
StoreFlip(t) ==
  /\ call[t].op = "claim_actions" /\ call[t].pc = "flip"
  /\ rows' = UpdateStatus(rows, Range(call[t].sel), "processing")
  /\ call' = [call EXCEPT ![t].pc = "release"]
  /\ UNCHANGED <<memory, lock, storeHist, breakerVars, schedVars, faults>>

\* mark_action_status: UPDATE queued_actions SET status = ? WHERE id = ?
StoreMark(t) ==
  /\ call[t].op = "mark_action_status" /\ call[t].pc = "update"
  /\ rows' = UpdateStatus(rows, {call[t].id}, call[t].status)
  /\ call' = [call EXCEPT ![t].pc = "release",
                          ![t].prev = IF call[t].id \in Ids(rows)
                                        THEN rows[call[t].id].status ELSE "none"]
  /\ UNCHANGED <<memory, lock, storeHist, breakerVars, schedVars, faults>>

\* leaving the with block: commit, release the lock, return
Release(t) ==
  /\ call[t].pc = "release"
  /\ lock' = "free"
  /\ call' = [call EXCEPT ![t] = NoCall]
  /\ created' = IF t \in Callers /\ call[t].op = "queue_action" /\ call[t].res
                  THEN [created EXCEPT ![call[t].key] = @ + 1]
                  ELSE created
  /\ claimCount' = IF t \in Callers /\ call[t].op = "claim_actions"
                     THEN [i \in DOMAIN claimCount |->
                             IF i \in Range(call[t].sel) THEN claimCount[i] + 1
                             ELSE claimCount[i]]
                     ELSE claimCount
  /\ run' = IF t \in Callers /\ call[t].op = "claim_actions"
              THEN [run EXCEPT ![call[t].worker].got = @ \cup Range(call[t].sel)]
              ELSE run
  /\ UNCHANGED <<rows, memory, lastSet, breakerVars, schedVars, faults>>

\* set_memory: the INSERT ... ON CONFLICT of the encoded document
StoreSet(t) ==
  /\ call[t].op = "set_memory" /\ call[t].pc = "upsert"
  /\ memory' = Upsert(memory, call[t].mkey, Encode(call[t].doc))
  /\ lastSet' = [lastSet EXCEPT ![call[t].mkey] = Some(call[t].doc)]
  /\ call' = [call EXCEPT ![t].pc = "release"]
  /\ UNCHANGED <<rows, lock, created, claimCount, run, breakerVars, schedVars, faults>>

\* get_memory: the SELECT, and the value the call will return
StoreGet(t) ==
  /\ call[t].op = "get_memory" /\ call[t].pc = "read"
  /\ call' = [call EXCEPT ![t].pc = "release",
                          ![t].out = GetMemory(memory, call[t].mkey, call[t].default)]
  /\ UNCHANGED <<rows, memory, lock, storeHist, breakerVars, schedVars, faults>>

\* --------------------------------------------------- callers of StoreSpec
\* Keys are opaque strings: a call with a key not in the table uses the least
\* unused one (every other choice is a renaming of it).
FreshKey(k) == \A j \in Keys : j < k => KeyPresent(rows, j)

CallQueueAction(t) ==
  \E w \in Workers, p \in Payloads, k \in Keys :
    /\ KeyPresent(rows, k) \/ (Len(rows) < MaxRows /\ FreshKey(k))
    /\ Enter(t, QueueCall(w, p, k))
    /\ UNCHANGED <<schedVars, faults>>

CallClaimActions(t) ==
  \E w \in Workers, n \in 1 .. MaxLimit :
    /\ Enter(t, ClaimCall(w, n))
    /\ UNCHANGED <<schedVars, faults>>

\* a caller learns an id only from claim_actions; MaxRows + 1 is the id of no row
CallMarkActionStatus(t) ==
  \E i \in 1 .. MaxRows + 1, s \in Terminal :
    /\ claimCount[i] > 0 \/ i \notin Ids(rows)
    /\ Enter(t, MarkCall(i, s))
    /\ UNCHANGED <<schedVars, faults>>

\* SharedStateStore.__init__ on whatever data/state.sqlite3 holds: CREATE TABLE
\* IF NOT EXISTS keeps the tables, the lock is new and no call is in progress
StoreOpened ==
  /\ lock = "free"
  /\ call = [t \in Threads |-> NoCall]

CallSetMemory(t) ==
  \E k \in MemKeys, doc \in Docs :
    /\ Enter(t, SetCall(k, doc))
    /\ UNCHANGED <<schedVars, faults>>

CallGetMemory(t) ==
  \E k \in MemKeys, default \in Defaults :
    /\ Enter(t, GetCall(k, default))
    /\ UNCHANGED <<schedVars, faults>>

\* the store of a first start: no file yet, so both tables are created empty
StoreInit ==
  /\ rows = <<>>
  /\ memory = NoMemory
  /\ StoreOpened
  /\ created = [k \in AllKeys |-> 0]
  /\ claimCount = [i \in AllIds |-> 0]
  /\ run = [w \in Workers |-> NoRun]
  /\ lastSet = NeverSet

\* ------------------------------------------------------------ CircuitBreaker
\* CircuitBreaker.__init__
NewBreaker(failure_threshold, cooldown_cycles) ==
  [failure_threshold |-> Max(1, failure_threshold),
   cooldown_cycles |-> Max(1, cooldown_cycles),
   failures |-> 0,
   cooldown_remaining |-> 0]

\* (mutant) can_run() that ignores the cooldown
CanRunResultAlways(b) == TRUE

\* CircuitBreaker.can_run: the value returned
CanRunResult(b) == ~(b.cooldown_remaining > 0)

\* (mutant) can_run() that does not count the cooldown down
CanRunStuck(b) == b

\* CircuitBreaker.can_run: the breaker afterwards
CanRun(b) ==
  IF b.cooldown_remaining > 0
    THEN [b EXCEPT !.cooldown_remaining = @ - 1]
    ELSE b

\* (mutant) success() that also ends a cooldown
SuccessEndsCooldown(b) == [b EXCEPT !.failures = 0, !.cooldown_remaining = 0]

\* (mutant) success() that leaves the counter alone
SuccessKeeps(b) == b

\* CircuitBreaker.success
Success(b) == [b EXCEPT !.failures = 0]

\* (mutant) the threshold compared with > instead of >=
FailLate(b) ==
  IF b.failures + 1 > b.failure_threshold
    THEN [b EXCEPT !.cooldown_remaining = b.cooldown_cycles, !.failures = 0]
    ELSE [b EXCEPT !.failures = b.failures + 1]

\* CircuitBreaker.fail
Fail(b) ==
  IF b.failures + 1 >= b.failure_threshold
    THEN [b EXCEPT !.cooldown_remaining = b.cooldown_cycles, !.failures = 0]
    ELSE [b EXCEPT !.failures = b.failures + 1]

\* calls on the breaker of BreakerSpec
Probe == "terminal"

CallCanRun ==
  /\ Len(hist) < MaxCalls
  /\ breaker' = [breaker EXCEPT ![Probe] = CanRun(@)]
  /\ hist' = Append(hist, [call |-> "can_run", res |-> CanRunResult(breaker[Probe])])
  /\ UNCHANGED <<storeVars, storeHist, schedVars, faults>>

CallSuccess ==
  /\ Len(hist) < MaxCalls
  /\ breaker' = [breaker EXCEPT ![Probe] = Success(@)]
  /\ hist' = Append(hist, [call |-> "success", res |-> TRUE])
  /\ UNCHANGED <<storeVars, storeHist, schedVars, faults>>

CallFail ==
  /\ Len(hist) < MaxCalls
  /\ breaker' = [breaker EXCEPT ![Probe] = Fail(@)]
  /\ hist' = Append(hist, [call |-> "fail", res |-> TRUE])
  /\ UNCHANGED <<storeVars, storeHist, schedVars, faults>>

\* ------------------------------------------------- Scheduler configuration
\* the numeric fields of the "scheduler" section
Fields ==
  {"interval_seconds", "jitter_seconds", "worker_timeout_seconds",
   "breaker_failure_threshold", "breaker_cooldown_cycles"}

\* what the configuration file can hold for a numeric field: an integer, no
\* entry, or a value int() does not accept (such as the string "abc")
IntValue(n) == [kind |-> "int", n |-> n]
Absent == [kind |-> "absent", n |-> 0]
Malformed == [kind |-> "malformed", n |-> 0]
Values == {IntValue(n) : n \in -1 .. MaxValue} \cup {Absent, Malformed}

\* SchedulerConfig's defaults, as passed to scheduler_cfg.get
DefaultInterval == 60
DefaultJitter == 5
DefaultTimeout == 20
DefaultThreshold == 3
DefaultCooldown == 3

Default(f) ==
  CASE f = "interval_seconds" -> DefaultInterval
    [] f = "jitter_seconds" -> DefaultJitter
    [] f = "worker_timeout_seconds" -> DefaultTimeout
    [] f = "breaker_failure_threshold" -> DefaultThreshold
    [] f = "breaker_cooldown_cycles" -> DefaultCooldown

\* the values that replace an interval, a jitter, a timeout out of range
FallbackInterval == 60
FallbackJitter == 0
FallbackTimeout == 20

\* int(scheduler_cfg.get(f, default)) raises ValueError
IntRaises(raw, f) == raw[f].kind = "malformed"

\* int(scheduler_cfg.get(f, default)) when it returns
IntOf(raw, f) == IF raw[f].kind = "absent" THEN Default(f) ELSE raw[f].n

NoConfig == [f \in Fields |-> 0]

\* _parse_scheduler_config when no int() raises: interval, jitter and timeout
\* are checked, the two breaker fields are passed on as they are
ParsedConfig(raw) ==
  [f \in Fields |->
     CASE f = "interval_seconds" ->
            IF IntOf(raw, f) <= 0 THEN FallbackInterval ELSE IntOf(raw, f)
       [] f = "jitter_seconds" ->
            IF IntOf(raw, f) < 0 THEN FallbackJitter ELSE IntOf(raw, f)
       [] f = "worker_timeout_seconds" ->
            IF IntOf(raw, f) <= 0 THEN FallbackTimeout ELSE IntOf(raw, f)
       [] OTHER -> IntOf(raw, f)]

\* (mutant) CircuitBreaker.__init__ without max(1, ...)
BreakersUnclamped(config) ==
  [w \in {"terminal", "browser"} |->
     [failure_threshold |-> config["breaker_failure_threshold"],
      cooldown_cycles |-> config["breaker_cooldown_cycles"],
      failures |-> 0,
      cooldown_remaining |-> 0]]

\* self._breakers = {"terminal": CircuitBreaker(...), "browser": CircuitBreaker(...)}
Breakers(config) ==
  [w \in {"terminal", "browser"} |->
     NewBreaker(config["breaker_failure_threshold"], config["breaker_cooldown_cycles"])]

\* the state of Scheduler.__init__ once it has returned, for a configuration
\* file with these integers in its scheduler section and no worker_timeout_seconds
ConstructedWith(interval, jitter, threshold, cooldown) ==
  LET raw == [f \in Fields |->
                CASE f = "interval_seconds" -> IntValue(interval)
                  [] f = "jitter_seconds" -> IntValue(jitter)
                  [] f = "breaker_failure_threshold" -> IntValue(threshold)
                  [] f = "breaker_cooldown_cycles" -> IntValue(cooldown)
                  [] OTHER -> Absent]
  IN [phase |-> "constructed", raw |-> raw, config |-> ParsedConfig(raw)]

\* the same with the shortest sleep the model needs: interval_seconds is
\* SleepTicks and jitter_seconds is 0
Constructed(threshold, cooldown) == ConstructedWith(SleepTicks, 0, threshold, cooldown)

ConfigFrame ==
  UNCHANGED <<storeVars, storeHist, hist, faults, spc, cycle, shutdown, timer, pace, adapterVars,
              wpc, rpc, todo, task, tracing, dry_run, crash, tracer, adapter, events, emitted, ops, bcalls, cd0, batch, acts, xfail>>

\* self.config = self._parse_scheduler_config(self.raw_config) returns
ParseSchedulerConfig ==
  /\ startup.phase = "loaded"
  /\ \A f \in Fields : ~IntRaises(startup.raw, f)
  /\ startup' = [startup EXCEPT !.phase = "parsed", !.config = ParsedConfig(startup.raw)]
  /\ ConfigFrame
  /\ UNCHANGED breaker

\* an int() of _parse_scheduler_config raises: nothing catches the ValueError
\* and Scheduler.__init__ is left with it
ParseRaises ==
  /\ startup.phase = "loaded"
  /\ \E f \in Fields : IntRaises(startup.raw, f)
  /\ startup' = [startup EXCEPT !.phase = "failed"]
  /\ ConfigFrame
  /\ UNCHANGED breaker

\* the rest of Scheduler.__init__: the store, the tracer, adapter, the workers, the breakers
Construct ==
  /\ startup.phase = "parsed"
  /\ startup' = [startup EXCEPT !.phase = "constructed"]
  /\ breaker' = Breakers(startup.config)
  /\ ConfigFrame


\* --------------------------------------------------------- PlatformAdapter
\* len(body) > 500
CharLimit == 500

\* what a draft is made of: white space, plain text, a stretch of plain text of
\* CharLimit characters, and the texts ContentSafetyPolicy.evaluate looks for
\* in either case
Words == {"sp", "hi", "long", "Password", "https://", "TODO", "todo"}

\* len() of a word
Chars(word) ==
  CASE word = "sp" -> 1
    [] word = "hi" -> 2
    [] word = "long" -> CharLimit
    [] word \in {"TODO", "todo"} -> 4
    [] OTHER -> 8

RECURSIVE Length(_)
Length(content) ==
  IF content = <<>> THEN 0 ELSE Chars(Head(content)) + Length(Tail(content))

\* str.strip()
RECURSIVE Strip(_)
Strip(content) ==
  IF content = <<>> THEN <<>>
  ELSE IF Head(content) = "sp" THEN Strip(Tail(content))
  ELSE IF content[Len(content)] = "sp" THEN Strip(SubSeq(content, 1, Len(content) - 1))
  ELSE content

\* str.lower()
Lower(content) ==
  [i \in DOMAIN content |->
     CASE content[i] = "Password" -> "password"
       [] content[i] = "TODO" -> "todo"
       [] OTHER -> content[i]]

\* what draft_response returns: None, or a string
NoContent == [none |-> TRUE, text |-> <<>>]
Text(words) == [none |-> FALSE, text |-> words]

\* blocked_markers
BlockedMarkers == {"password", "api key", "credit card", "social security"}

\* ContentSafetyPolicy.evaluate(content).allowed
Evaluate(content) ==
  IF content.none THEN FALSE
  ELSE LET body == Strip(content.text)
           lowered == Lower(body)
       IN IF body = <<>> THEN FALSE
          ELSE IF Length(body) > CharLimit THEN FALSE
          ELSE IF Range(lowered) \cap BlockedMarkers # {} THEN FALSE
          ELSE IF Range(lowered) \cap {"http://", "https://"} # {} THEN FALSE
          ELSE IF Range(content.text) \cap {"TODO", "TBD"} # {} THEN FALSE
          ELSE TRUE

\* the drafts draft_response returns in AdapterSpec
Drafts ==
  {NoContent} \cup
  {Text(words) : words \in
     {<<>>, <<"sp">>, <<"hi">>, <<"sp", "hi", "sp">>, <<"long">>, <<"sp", "long">>,
      <<"hi", "long">>, <<"hi", "Password">>, <<"https://", "hi">>, <<"TODO">>, <<"todo">>}}

\* the adapter's methods that process_cycle calls through _with_retry
Retried == {"login", "fetch_feed", "draft_response", "post"}

\* what a call of a method can return
Returns(op) ==
  CASE op = "health_check" -> {"true", "false"}
    [] op = "login" -> {"true", "false"}
    [] op = "fetch_feed" -> {"feed"}
    [] op = "draft_response" -> {"draft"}
    [] op = "post" -> {"true", "false"}

\* _with_retry before it is called
NoRetry == [name |-> "none", at |-> "idle", attempt |-> 0, backoff |-> 0, slept |-> 0,
            ret |-> "none", exc |-> 0]

\* PlatformAdapter.__init__ and the first line of process_cycle. calls is the
\* history of the calls made on the adapter and its safety policy, raised the
\* call whose exception left process_cycle (0: none)
NewAdapter(capabilities, rate_limit_policy) ==
  [capabilities |-> capabilities, rate_limit_policy |-> rate_limit_policy,
   pc |-> "health_check", retry |-> NoRetry, draft |-> NoContent, calls |-> <<>>, raised |-> 0]

\* the specifications that do not follow an adapter through its cycle
NoAdapter ==
  NewAdapter([can_login |-> TRUE, can_fetch_feed |-> TRUE, can_draft_response |-> TRUE,
              can_post |-> TRUE],
             [max_retries |-> 0, backoff_base_seconds |-> 1, max_backoff_seconds |-> 1])

\* the part of the model that process_cycle leaves alone
ProcessCycleFrame ==
  UNCHANGED <<storeVars, storeHist, breakerVars, schedVars_but_tracer, tracer, faults>>

Raises(a) == Cardinality({i \in DOMAIN a.calls : a.calls[i].res = "raise"})

Called(a, op, res) == [a EXCEPT !.calls = Append(@, [op |-> op, res |-> res])]

\* if not self.health_check(): return
HealthCheck(res) ==
  /\ adapter.pc = "health_check"
  /\ adapter' = [Called(adapter, "health_check", res) EXCEPT
                   !.pc = IF res = "true" THEN "login" ELSE "returned"]
  /\ ProcessCycleFrame

\* health_check is called outside _with_retry: what it raises leaves process_cycle
HealthCheckRaises ==
  /\ adapter.pc = "health_check"
  /\ Raises(adapter) < MaxRaises
  /\ adapter' = [Called(adapter, "health_check", "raise") EXCEPT
                   !.pc = "raised", !.raised = Len(adapter.calls) + 1]
  /\ ProcessCycleFrame

\* if self.capabilities.can_login: ... is false
SkipLogin ==
  /\ adapter.pc = "login" /\ adapter.retry.at \in {"idle", "returned"}
  /\ ~adapter.capabilities.can_login
  /\ adapter' = [adapter EXCEPT !.pc = "fetch_feed"]
  /\ ProcessCycleFrame

\* if self.capabilities.can_fetch_feed: ... else: fetch_feed disabled
SkipFetchFeed ==
  /\ adapter.pc = "fetch_feed" /\ adapter.retry.at \in {"idle", "returned"}
  /\ ~adapter.capabilities.can_fetch_feed
  /\ adapter' = [adapter EXCEPT !.pc = "draft_response"]
  /\ ProcessCycleFrame

\* if not self.capabilities.can_draft_response: return
NoDraftResponse ==
  /\ adapter.pc = "draft_response" /\ adapter.retry.at \in {"idle", "returned"}
  /\ ~adapter.capabilities.can_draft_response
  /\ adapter' = [adapter EXCEPT !.pc = "returned"]
  /\ ProcessCycleFrame

\* the capability that guards the call of op through _with_retry; post is
\* reached only past its guard
Capable(op) ==
  CASE op = "login" -> adapter.capabilities.can_login
    [] op = "fetch_feed" -> adapter.capabilities.can_fetch_feed
    [] op = "draft_response" -> adapter.capabilities.can_draft_response
    [] op = "post" -> TRUE

\* _with_retry(action_name, action): attempt = 0
WithRetry ==
  /\ adapter.pc \in Retried /\ adapter.retry.at \in {"idle", "returned"}
  /\ Capable(adapter.pc)
  /\ adapter' = [adapter EXCEPT !.retry = [NoRetry EXCEPT !.name = adapter.pc, !.at = "limit"]]
  /\ ProcessCycleFrame

\* self._apply_rate_limit()
ApplyRateLimit ==
  /\ adapter.retry.at = "limit"
  /\ adapter' = [adapter EXCEPT !.retry.at = "call"]
  /\ ProcessCycleFrame

\* (mutant) a gate that leaves out the policy's decision
MayPostUnvetted(content) == ~(dry_run \/ ~adapter.capabilities.can_post)

\* decision = self.safety_policy.evaluate(draft); if not decision.allowed: return;
\* if dry_run or not self.capabilities.can_post: return
MayPost(content) == Evaluate(content) /\ ~(dry_run \/ ~adapter.capabilities.can_post)

\* where process_cycle goes when _with_retry returned res for the method at pc
After(pc, res, content) ==
  CASE pc = "login" -> IF res = "true" THEN "fetch_feed" ELSE "returned"
    [] pc = "fetch_feed" -> "draft_response"
    [] pc = "draft_response" -> IF MayPost(content) THEN "post" ELSE "returned"
    [] pc = "post" -> "returned"

\* return action(): the call returns, and so does _with_retry; process_cycle
\* goes on with the result. A draft is evaluated at once.
ActionReturns(res, content) ==
  /\ adapter.retry.at = "call"
  /\ res \in Returns(adapter.pc)
  /\ LET a == Called(adapter, adapter.pc, res)
         b == IF adapter.pc = "draft_response"
                THEN Called(a, "evaluate", IF Evaluate(content) THEN "true" ELSE "false")
                ELSE a
     IN adapter' = [b EXCEPT !.retry.at = "returned", !.retry.ret = res,
                             !.draft = IF adapter.pc = "draft_response" THEN content ELSE @,
                             !.pc = After(adapter.pc, res, content)]
  /\ ProcessCycleFrame

\* (mutant) a check that allows one attempt more
ExhaustedLate(attempt) == attempt > adapter.rate_limit_policy.max_retries + 1

\* if attempt > self.rate_limit_policy.max_retries
Exhausted(attempt) == attempt > adapter.rate_limit_policy.max_retries

\* min(backoff_base_seconds * (2 ** (attempt - 1)), max_backoff_seconds)
Backoff(attempt) ==
  Min(adapter.rate_limit_policy.backoff_base_seconds * (2 ^ (attempt - 1)),
      adapter.rate_limit_policy.max_backoff_seconds)

\* except Exception: attempt += 1; past max_retries the exception is raised
\* again and leaves process_cycle, otherwise the backoff is computed
ActionRaises ==
  /\ adapter.retry.at = "call"
  /\ Raises(adapter) < MaxRaises
  /\ LET a == Called(adapter, adapter.pc, "raise")
         attempt == adapter.retry.attempt + 1
     IN adapter' =
          IF Exhausted(attempt)
            THEN [a EXCEPT !.retry.attempt = attempt, !.retry.at = "raised",
                           !.retry.exc = Len(a.calls), !.raised = Len(a.calls),
                           !.pc = "raised"]
            ELSE [a EXCEPT !.retry.attempt = attempt, !.retry.at = "backoff",
                           !.retry.backoff = Backoff(attempt)]
  /\ ProcessCycleFrame

\* backoff += random.uniform(*jitter_seconds); time.sleep(backoff)
SleepBackoff(jitter) ==
  /\ adapter.retry.at = "backoff"
  /\ adapter' = [adapter EXCEPT !.retry.slept = adapter.retry.backoff + jitter,
                                !.retry.at = "limit"]
  /\ ProcessCycleFrame
\* ------------------------------------------------------------- EventTracer
\* EventTracer.__init__: a new lock; no thread is in emit
NewTracer ==
  [lock |-> "free", file |-> <<>>, emits |-> 0,
   at |-> [t \in Threads |-> [pc |-> "idle", rec |-> 0, base |-> 0]]]

\* a piece of thread t's line as it reaches the file
Chunk(t, part) == [by |-> t, rec |-> tracer.at[t].rec, part |-> part]

\* the part of the model that emit leaves alone
TracerFrame ==
  UNCHANGED <<storeVars, storeHist, breakerVars, schedVars_but_tracer, adapter, faults>>

\* (mutant) emit without its lock
TracerLockFreeAlways == TRUE

\* with self._lock: no other thread holds the tracer's lock
TracerLockFree == tracer.lock = "free"

\* emit: the record is built and serialised, then the lock is taken and the
\* file opened for appending. rec numbers the record, base is history: the
\* length of the file when the lock was taken
EmitAcquire(t) ==
  /\ tracer.at[t].pc = "idle"
  /\ tracer.emits < MaxEmits
  /\ TracerLockFree
  /\ tracer' = [tracer EXCEPT !.lock = t, !.emits = @ + 1,
                              !.at[t] = [pc |-> "write", rec |-> tracer.emits + 1,
                                         base |-> Len(tracer.file)]]
  /\ TracerFrame

\* event_file.write(line + "\n") reaches the file in one piece when the file is closed
EmitWriteWhole(t) ==
  /\ tracer.at[t].pc = "write"
  /\ tracer' = [tracer EXCEPT !.file = Append(@, Chunk(t, "whole")),
                              !.at[t].pc = "release"]
  /\ TracerFrame

\* a line longer than the buffer reaches the file in two pieces: the first
EmitWriteHead(t) ==
  /\ tracer.at[t].pc = "write"
  /\ tracer' = [tracer EXCEPT !.file = Append(@, Chunk(t, "head")),
                              !.at[t].pc = "tail"]
  /\ TracerFrame

\* the second piece, with the newline, when the file is closed
EmitWriteTail(t) ==
  /\ tracer.at[t].pc = "tail"
  /\ tracer' = [tracer EXCEPT !.file = Append(@, Chunk(t, "tail")),
                              !.at[t].pc = "release"]
  /\ TracerFrame

\* leaving with self._lock: emit returns
EmitRelease(t) ==
  /\ tracer.at[t].pc = "release"
  /\ tracer' = [tracer EXCEPT !.lock = "free", !.at[t].pc = "idle"]
  /\ TracerFrame

\* ------------------------------------------------------------------ workers
\* In Spec a store operation of a worker is one step: it runs from acquiring
\* the store lock to releasing it, which StoreSpec models statement by statement.
Ev(e, w) == [event |-> e, worker |-> w]

\* EventTracer.emit by a thread of worker w
Emit(e, w) ==
  /\ events' = IF tracing THEN Append(events, Ev(e, w)) ELSE events
  /\ emitted' = [emitted EXCEPT ![w] = Append(@, e)]

NoEmit == UNCHANGED <<events, emitted>>

EchoCommand == [command |-> "/bin/echo", cursor |-> 0]

\* TerminalWorker.ALLOWLIST
Allowlist == {"/bin/echo", "/usr/bin/printf"}

\* the executables of the commands a queued terminal action can carry; "" is
\* the empty command (payload.get("command", []) of a payload without one)
Commands == {"", "/bin/echo", "/bin/rm"}

\* TerminalWorker._vet_command returns without raising
Vetted(command) == command # "" /\ command \in Allowlist

\* (mutant) the terminal worker runs the command whatever dry_run says
SideEffectReal(w, dry) == IF w = "terminal" THEN "subprocess" ELSE "sleep"

\* what _execute_action / _perform_action does between its two events:
\* subprocess.run in the terminal worker when not dry_run, time.sleep otherwise
SideEffect(w, dry) == IF w = "terminal" /\ ~dry THEN "subprocess" ELSE "sleep"

Did(i, what) == acts' = [acts EXCEPT ![i] = Append(@, what)]
BrowserTask(cursor) == [command |-> "scan_notifications", cursor |-> cursor]

\* the part of a worker step that every worker step leaves alone
WorkerFrame ==
  UNCHANGED <<lock, call, storeHist, breakerVars, spc, cycle, shutdown, tracing, dry_run, crash, tracer, adapter, startup, timer, pace, adapterVars, wpc,
              bcalls, cd0>>

StoreOp(w) ==
  /\ LockFree
  /\ ops' = [ops EXCEPT ![w] = @ + 1]

\* (mutant) action_queued is never emitted
AfterQueueSilent(isNew) == "claim"

\* after queue_action: if created: emit("action_queued", ...)
AfterQueue(isNew) == IF isNew THEN "seeded" ELSE "claim"

\* (mutant) a key that is not a function of the command alone: once the
\* command is in the table, a later seeding uses another key
TerminalSeedKeyPerCycle ==
  /\ rpc["terminal"] = "seed"
  /\ StoreOp("terminal")
  /\ LET key == IF KeyPresent(rows, TerminalKey) THEN 0 - cycle ELSE TerminalKey
     IN /\ rows' = InsertRow(rows, "terminal", EchoCommand, key)
        /\ rpc' = [rpc EXCEPT !["terminal"] = AfterQueue(InsertCreated(rows, key))]
  /\ WorkerFrame
  /\ UNCHANGED <<memory, todo, task, events, emitted, faults, batch, acts, xfail>>

\* TerminalWorker._seed_default_actions: queue_action with the sha256 of the command
TerminalSeed ==
  /\ rpc["terminal"] = "seed"
  /\ StoreOp("terminal")
  /\ rows' = InsertRow(rows, "terminal", EchoCommand, TerminalKey)
  /\ rpc' = [rpc EXCEPT !["terminal"] = AfterQueue(InsertCreated(rows, TerminalKey))]
  /\ WorkerFrame
  /\ UNCHANGED <<memory, todo, task, events, emitted, faults, batch, acts, xfail>>

\* {"cursor": n}
CursorDoc(n) == [f \in {"cursor"} |-> n]

\* BrowserWorker._extract_tasks: get_memory("browser.tasks", default={"cursor": 0})
BrowserGet ==
  /\ rpc["browser"] = "get"
  /\ StoreOp("browser")
  /\ task' = GetMemory(memory, "browser.tasks", Some(CursorDoc(0)))["cursor"]
  /\ rpc' = [rpc EXCEPT !["browser"] = "set"]
  /\ WorkerFrame
  /\ UNCHANGED <<rows, memory, todo, events, emitted, faults, batch, acts, xfail>>

\* BrowserWorker._extract_tasks: memory["cursor"] = cursor + 1; set_memory(...)
BrowserSet ==
  /\ rpc["browser"] = "set"
  /\ StoreOp("browser")
  /\ memory' = Upsert(memory, "browser.tasks", Encode(CursorDoc(task + 1)))
  /\ rpc' = [rpc EXCEPT !["browser"] = "queue"]
  /\ WorkerFrame
  /\ UNCHANGED <<rows, todo, task, events, emitted, faults, batch, acts, xfail>>

\* BrowserWorker._queue_extracted_tasks: queue_action with the sha256 of the fingerprint
BrowserQueue ==
  /\ rpc["browser"] = "queue"
  /\ StoreOp("browser")
  /\ rows' = InsertRow(rows, "browser", BrowserTask(task), BrowserKey(task))
  /\ rpc' = [rpc EXCEPT !["browser"] = AfterQueue(InsertCreated(rows, BrowserKey(task)))]
  /\ WorkerFrame
  /\ UNCHANGED <<memory, todo, task, events, emitted, faults, batch, acts, xfail>>

\* the key the worker has just passed to queue_action
QueuedKey(w) == IF w = "terminal" THEN TerminalKey ELSE BrowserKey(task)

RowOfKey(k) == CHOOSE i \in Ids(rows) : rows[i].idempotency_key = k

\* if created: self.event_tracer.emit("action_queued", worker=..., idempotency_key=...)
Seeded(w) ==
  /\ rpc[w] = "seeded"
  /\ rpc' = [rpc EXCEPT ![w] = "claim"]
  /\ Emit("action_queued", w)
  /\ Did(RowOfKey(QueuedKey(w)), "queued")
  /\ WorkerFrame
  /\ UNCHANGED <<rows, memory, todo, task, faults, ops, batch, xfail>>

\* queued_actions = self.state_store.claim_actions(worker=..., limit=10); the
\* loop is entered with the claimed batch, or run_cycle returns if it is empty
Claim(w) ==
  /\ rpc[w] = "claim"
  /\ StoreOp(w)
  /\ LET sel == SelectQueued(rows, w, ClaimLimit)
     IN /\ rows' = UpdateStatus(rows, Range(sel), "processing")
        /\ todo' = [todo EXCEPT ![w] = sel]
        /\ batch' = [batch EXCEPT ![w] = sel]
        /\ rpc' = [rpc EXCEPT ![w] = IF sel = <<>> THEN "returned" ELSE "exec_start"]
  /\ WorkerFrame
  /\ UNCHANGED <<memory, task, events, emitted, faults, xfail, acts>>

\* _execute_action / _perform_action up to the started event: the terminal
\* worker vets the command, then terminal_action_started /
\* browser_action_started is emitted
ExecStart(w) ==
  /\ rpc[w] = "exec_start"
  /\ w = "terminal" => Vetted(rows[Head(todo[w])].payload.command)
  /\ rpc' = [rpc EXCEPT ![w] = "exec_run"]
  /\ Emit("action_started", w)
  /\ Did(Head(todo[w]), "started")
  /\ WorkerFrame
  /\ UNCHANGED <<rows, memory, todo, task, faults, ops, batch, xfail>>

\* self._vet_command(command) raises ValueError: nothing is emitted and control
\* goes to the except clause of run_cycle
VetReject ==
  /\ rpc["terminal"] = "exec_start"
  /\ ~Vetted(rows[Head(todo["terminal"])].payload.command)
  /\ rpc' = [rpc EXCEPT !["terminal"] = "mark_failed"]
  /\ xfail' = [xfail EXCEPT !["terminal"].exec = Head(todo["terminal"])]
  /\ WorkerFrame
  /\ UNCHANGED <<rows, memory, todo, task, events, emitted, faults, ops, batch, acts>>

\* the side effect (sleep or subprocess.run), then the completed event
ExecRun(w) ==
  /\ rpc[w] = "exec_run"
  /\ rpc' = [rpc EXCEPT ![w] = "mark_done"]
  /\ Emit("action_completed", w)
  /\ acts' = [acts EXCEPT ![Head(todo[w])] = @ \o <<SideEffect(w, dry_run), "completed">>]
  /\ WorkerFrame
  /\ UNCHANGED <<rows, memory, todo, task, faults, ops, batch, xfail>>

\* _execute_action / _perform_action raises (an I/O error of emit, a
\* subprocess error): control goes to the except clause
ExecFail(w) ==
  /\ rpc[w] \in {"exec_start", "exec_run"}
  /\ faults < MaxFaults
  /\ faults' = faults + 1
  /\ rpc' = [rpc EXCEPT ![w] = "mark_failed"]
  /\ xfail' = [xfail EXCEPT ![w].exec = Head(todo[w])]
  /\ WorkerFrame
  /\ UNCHANGED <<rows, memory, todo, task, events, emitted, ops, batch, acts>>

\* the side effect never returns (subprocess.run is called without a timeout;
\* the terminal worker calls it only when not dry_run): run_cycle stays where
\* it is, in its thread
Hang(w) ==
  /\ rpc[w] = "exec_run"
  /\ w = "terminal" => ~dry_run
  /\ faults < MaxFaults
  /\ faults' = faults + 1
  /\ rpc' = [rpc EXCEPT ![w] = "hung"]
  /\ Did(Head(todo[w]), SideEffect(w, dry_run))
  /\ WorkerFrame
  /\ UNCHANGED <<rows, memory, todo, task, events, emitted, ops, batch, xfail>>

\* self.state_store.mark_action_status(action["id"], "done"), then the next
\* action of the batch, or run_cycle returns
MarkDone(w) ==
  /\ rpc[w] = "mark_done"
  /\ StoreOp(w)
  /\ rows' = UpdateStatus(rows, {Head(todo[w])}, "done")
  /\ todo' = [todo EXCEPT ![w] = Tail(@)]
  /\ rpc' = [rpc EXCEPT ![w] = IF Len(todo[w]) = 1 THEN "returned" ELSE "exec_start"]
  /\ WorkerFrame
  /\ UNCHANGED <<memory, task, events, emitted, faults, batch, acts, xfail>>

\* (mutant) the except clause without raise: the loop goes on with the next action
MarkFailedSwallow(w) ==
  /\ rpc[w] = "mark_failed"
  /\ StoreOp(w)
  /\ rows' = UpdateStatus(rows, {Head(todo[w])}, "failed")
  /\ todo' = [todo EXCEPT ![w] = Tail(@)]
  /\ rpc' = [rpc EXCEPT ![w] = IF Len(todo[w]) = 1 THEN "returned" ELSE "exec_start"]
  /\ WorkerFrame
  /\ UNCHANGED <<memory, task, events, emitted, faults, batch, acts, xfail>>

\* except Exception: self.state_store.mark_action_status(action["id"], "failed");
\* raise -- the rest of the batch is not visited
MarkFailed(w) ==
  /\ rpc[w] = "mark_failed"
  /\ StoreOp(w)
  /\ rows' = UpdateStatus(rows, {Head(todo[w])}, "failed")
  /\ rpc' = [rpc EXCEPT ![w] = "raised"]
  /\ WorkerFrame
  /\ UNCHANGED <<memory, todo, task, events, emitted, faults, batch, acts, xfail>>

\* (mutant) run_cycle catches the storage failure and returns
StoreFaultSwallowed(w) ==
  /\ rpc[w] \in {"seed", "get", "set", "queue", "claim", "mark_done", "mark_failed"}
  /\ StoreOp(w)
  /\ faults < MaxFaults
  /\ faults' = faults + 1
  /\ rpc' = [rpc EXCEPT ![w] = "returned"]
  /\ xfail' = [xfail EXCEPT ![w].mark = @ \/ rpc[w] = "mark_failed", ![w].store = TRUE]
  /\ WorkerFrame
  /\ UNCHANGED <<rows, memory, todo, task, events, emitted, batch, acts>>

\* a storage failure: the store operation raises and its connection rolls
\* back. Inside the try it leads to the except clause, elsewhere out of run_cycle
StoreFault(w) ==
  /\ rpc[w] \in {"seed", "get", "set", "queue", "claim", "mark_done", "mark_failed"}
  /\ StoreOp(w)
  /\ faults < MaxFaults
  /\ faults' = faults + 1
  /\ rpc' = [rpc EXCEPT ![w] = IF rpc[w] = "mark_done" THEN "mark_failed" ELSE "raised"]
  /\ xfail' = [xfail EXCEPT ![w].mark = @ \/ rpc[w] = "mark_failed", ![w].store = TRUE]
  /\ WorkerFrame
  /\ UNCHANGED <<rows, memory, todo, task, events, emitted, batch, acts>>

\* ---------------------------------------------------------------- Scheduler
NoFail == [exec |-> 0, mark |-> FALSE, store |-> FALSE]

FirstPc(w) == IF w = "terminal" THEN "seed" ELSE "get"

Running(w) == rpc[w] \notin {"idle", "returned", "raised"}

BreakerCall(w, name) == bcalls' = [bcalls EXCEPT ![w] = Append(@, name)]

\* _run_worker_with_watchdog: if not breaker.can_run(): emit skipped and return;
\* otherwise executor.submit(runner)
WatchCheck(w) ==
  /\ wpc[w] = "check"
  /\ breaker' = [breaker EXCEPT ![w] = CanRun(@)]
  /\ BreakerCall(w, "can_run")
  /\ IF CanRunResult(breaker[w])
       THEN /\ wpc' = [wpc EXCEPT ![w] = "wait"]
            /\ rpc' = [rpc EXCEPT ![w] = FirstPc(w)]
            /\ NoEmit
       ELSE /\ wpc' = [wpc EXCEPT ![w] = "finished"]
            /\ Emit("worker_skipped_breaker", w)
            /\ UNCHANGED rpc
  /\ UNCHANGED <<storeVars, storeHist, hist, spc, cycle, shutdown, tracing, dry_run, crash, tracer, adapter, startup, timer, pace, adapterVars,
                 todo, task, faults, ops, cd0, batch, acts, xfail>>

\* future.result(timeout=...) returned: breaker.success(), emit worker_success
WatchSuccess(w) ==
  /\ wpc[w] = "wait" /\ rpc[w] = "returned"
  /\ breaker' = [breaker EXCEPT ![w] = Success(@)]
  /\ BreakerCall(w, "success")
  /\ Emit("worker_success", w)
  /\ wpc' = [wpc EXCEPT ![w] = "finished"]
  /\ rpc' = [rpc EXCEPT ![w] = "idle"]
  /\ todo' = [todo EXCEPT ![w] = <<>>]
  /\ UNCHANGED <<storeVars, storeHist, hist, spc, cycle, shutdown, tracing, dry_run, crash, tracer, adapter, startup, timer, pace, adapterVars,
                 task, faults, ops, cd0, batch, acts, xfail>>

\* (mutant) the except Exception clause without breaker.fail()
WatchFailureNoBreaker(w) ==
  /\ wpc[w] = "wait" /\ rpc[w] = "raised"
  /\ Emit("worker_failure", w)
  /\ wpc' = [wpc EXCEPT ![w] = "finished"]
  /\ rpc' = [rpc EXCEPT ![w] = "idle"]
  /\ todo' = [todo EXCEPT ![w] = <<>>]
  /\ UNCHANGED <<storeVars, storeHist, breakerVars, spc, cycle, shutdown, tracing, dry_run, crash, tracer, adapter, startup, timer, pace, adapterVars,
                 task, faults, ops, bcalls, cd0, batch, acts, xfail>>

\* (mutant) the failure of one worker is counted on every breaker
WatchFailureEveryBreaker(w) ==
  /\ wpc[w] = "wait" /\ rpc[w] = "raised"
  /\ breaker' = [x \in Workers |-> Fail(breaker[x])]
  /\ BreakerCall(w, "fail")
  /\ Emit("worker_failure", w)
  /\ wpc' = [wpc EXCEPT ![w] = "finished"]
  /\ rpc' = [rpc EXCEPT ![w] = "idle"]
  /\ todo' = [todo EXCEPT ![w] = <<>>]
  /\ UNCHANGED <<storeVars, storeHist, hist, spc, cycle, shutdown, tracing, dry_run, crash, tracer, adapter, startup, timer, pace, adapterVars,
                 task, faults, ops, cd0, batch, acts, xfail>>

\* future.result raised what run_cycle raised: breaker.fail(), emit worker_failure
WatchFailure(w) ==
  /\ wpc[w] = "wait" /\ rpc[w] = "raised"
  /\ breaker' = [breaker EXCEPT ![w] = Fail(@)]
  /\ BreakerCall(w, "fail")
  /\ Emit("worker_failure", w)
  /\ wpc' = [wpc EXCEPT ![w] = "finished"]
  /\ rpc' = [rpc EXCEPT ![w] = "idle"]
  /\ todo' = [todo EXCEPT ![w] = <<>>]
  /\ UNCHANGED <<storeVars, storeHist, hist, spc, cycle, shutdown, tracing, dry_run, crash, tracer, adapter, startup, timer, pace, adapterVars,
                 task, faults, ops, cd0, batch, acts, xfail>>

\* (mutant) on TimeoutError the action in hand is marked failed
WatchTimeoutMarksFailed(w) ==
  /\ wpc[w] = "wait" /\ Running(w)
  /\ breaker' = [breaker EXCEPT ![w] = Fail(@)]
  /\ BreakerCall(w, "fail")
  /\ Emit("worker_timeout", w)
  /\ wpc' = [wpc EXCEPT ![w] = "joining"]
  /\ rows' = IF todo[w] = <<>> THEN rows ELSE UpdateStatus(rows, {Head(todo[w])}, "failed")
  /\ UNCHANGED <<memory, lock, call, storeHist, hist, spc, cycle, shutdown, tracing, dry_run, crash, tracer, adapter, startup, timer, pace, adapterVars,
                 rpc, todo, task, faults, ops, cd0, batch, acts, xfail>>

\* (mutant) one deadline for the cycle: the timeout of one worker is recorded
\* for every worker still awaited
WatchTimeoutShared(w) ==
  /\ wpc[w] = "wait" /\ Running(w)
  /\ LET hit == {x \in Workers : wpc[x] = "wait"}
     IN /\ breaker' = [x \in Workers |-> IF x \in hit THEN Fail(breaker[x]) ELSE breaker[x]]
        /\ bcalls' = [x \in Workers |-> IF x \in hit THEN Append(bcalls[x], "fail") ELSE bcalls[x]]
        /\ emitted' = [x \in Workers |->
                         IF x \in hit THEN Append(emitted[x], "worker_timeout") ELSE emitted[x]]
        /\ wpc' = [x \in Workers |-> IF x \in hit THEN "joining" ELSE wpc[x]]
  /\ events' = IF tracing THEN Append(events, Ev("worker_timeout", w)) ELSE events
  /\ UNCHANGED <<storeVars, storeHist, hist, spc, cycle, shutdown, tracing, dry_run, crash, tracer, adapter, startup, timer, pace, adapterVars,
                 rpc, todo, task, faults, ops, cd0, batch, acts, xfail>>

\* future.result raised TimeoutError while run_cycle is still running:
\* breaker.fail(), emit worker_timeout; run_cycle goes on in its thread
WatchTimeout(w) ==
  /\ wpc[w] = "wait" /\ Running(w)
  /\ breaker' = [breaker EXCEPT ![w] = Fail(@)]
  /\ BreakerCall(w, "fail")
  /\ Emit("worker_timeout", w)
  /\ wpc' = [wpc EXCEPT ![w] = "joining"]
  /\ UNCHANGED <<storeVars, storeHist, hist, spc, cycle, shutdown, tracing, dry_run, crash, tracer, adapter, startup, timer, pace, adapterVars,
                 rpc, todo, task, faults, ops, cd0, batch, acts, xfail>>

\* (mutant) shutdown(wait=False): the task ends while run_cycle is running
WatchJoinNoWait(w) ==
  /\ wpc[w] = "joining"
  /\ wpc' = [wpc EXCEPT ![w] = "finished"]
  /\ rpc' = [rpc EXCEPT ![w] = IF @ \in {"returned", "raised"} THEN "idle" ELSE @]
  /\ todo' = [todo EXCEPT ![w] = IF rpc[w] \in {"returned", "raised"} THEN <<>> ELSE @]
  /\ UNCHANGED <<storeVars, storeHist, breakerVars, spc, cycle, shutdown, tracing, dry_run, crash, tracer, adapter, startup, timer, pace, adapterVars,
                 task, events, emitted, faults, ops, bcalls, cd0, batch, acts, xfail>>

\* leaving `with ThreadPoolExecutor(max_workers=1)`: shutdown(wait=True) returns
\* when the run_cycle thread has ended
WatchJoin(w) ==
  /\ wpc[w] = "joining" /\ rpc[w] \in {"returned", "raised"}
  /\ wpc' = [wpc EXCEPT ![w] = "finished"]
  /\ rpc' = [rpc EXCEPT ![w] = "idle"]
  /\ todo' = [todo EXCEPT ![w] = <<>>]
  /\ UNCHANGED <<storeVars, storeHist, breakerVars, spc, cycle, shutdown, tracing, dry_run, crash, tracer, adapter, startup, timer, pace, adapterVars,
                 task, events, emitted, faults, ops, bcalls, cd0, batch, acts, xfail>>

\* cycle_jitter = random.uniform(0, self.config.jitter_seconds), in whole ticks;
\* nothing measured or slept yet
NewPace(j) == [pace EXCEPT !.jitter = j, !.elapsed = 0, !.slept = 0]

\* before the first cycle; timed tells whether this specification keeps the
\* history of the elapsed time and of the time slept
FirstPace(timed) == [timed |-> timed, jitter |-> 0, elapsed |-> 0, slept |-> 0]

\* (mutant) the loop does not look at shutdown_event
StartCycleAnyway ==
  /\ spc = "loop"
  /\ cycle < MaxCycles
  /\ cycle' = cycle + 1
  /\ spc' = "join"
  /\ events' = IF tracing THEN <<Ev("cycle_started", "none")>> ELSE events
  /\ emitted' = [w \in Workers |-> <<>>]
  /\ wpc' = [w \in Workers |-> "check"]
  /\ ops' = [w \in Workers |-> 0]
  /\ bcalls' = [w \in Workers |-> <<>>]
  /\ cd0' = [w \in Workers |-> breaker[w].cooldown_remaining]
  /\ batch' = [w \in Workers |-> <<>>]
  /\ xfail' = [w \in Workers |-> NoFail]
  /\ \E j \in 0 .. startup.config["jitter_seconds"] : pace' = NewPace(j)
  /\ UNCHANGED <<storeVars, storeHist, breakerVars, shutdown, tracing, dry_run, crash, tracer, adapter, startup, timer, adapterVars, rpc, todo, task, faults, acts>>

\* while not shutdown_event.is_set(): draw the jitter, emit cycle_started,
\* submit both watchdog tasks
StartCycle ==
  /\ spc = "loop" /\ ~shutdown
  /\ cycle < MaxCycles
  /\ cycle' = cycle + 1
  /\ spc' = "join"
  /\ events' = IF tracing THEN <<Ev("cycle_started", "none")>> ELSE events
  /\ emitted' = [w \in Workers |-> <<>>]
  /\ wpc' = [w \in Workers |-> "check"]
  /\ ops' = [w \in Workers |-> 0]
  /\ bcalls' = [w \in Workers |-> <<>>]
  /\ cd0' = [w \in Workers |-> breaker[w].cooldown_remaining]
  /\ batch' = [w \in Workers |-> <<>>]
  /\ xfail' = [w \in Workers |-> NoFail]
  /\ \E j \in 0 .. startup.config["jitter_seconds"] : pace' = NewPace(j)
  /\ UNCHANGED <<storeVars, storeHist, breakerVars, shutdown, tracing, dry_run, crash, tracer, adapter, startup, timer, adapterVars, rpc, todo, task, faults, acts>>

\* the loop condition is false: Scheduler.run returns
Stop ==
  /\ spc = "loop" /\ shutdown
  /\ spc' = "stopped"
  /\ UNCHANGED <<storeVars, storeHist, breakerVars, cycle, shutdown, tracing, dry_run, crash, tracer, adapter, startup, timer, pace, adapterVars, wpc, rpc,
                 todo, task, events, emitted, faults, ops, bcalls, cd0, batch, acts, xfail>>

\* (mutant) the watchdog tasks do not wait for a run_cycle that timed out
JoinWorkersEarly ==
  /\ spc = "join" /\ \A w \in Workers : wpc[w] \in {"finished", "joining"}
  /\ spc' = "adapters"
  /\ wpc' = [w \in Workers |-> "idle"]
  /\ UNCHANGED <<storeVars, storeHist, breakerVars, cycle, shutdown, tracing, dry_run, crash, tracer, adapter, startup, timer, pace, adapterVars, rpc,
                 todo, task, events, emitted, faults, ops, bcalls, cd0, batch, acts, xfail>>

\* for future in futures: future.result(), and leaving the pool of two
JoinWorkers ==
  /\ spc = "join" /\ \A w \in Workers : wpc[w] = "finished"
  /\ spc' = "adapters"
  /\ wpc' = [w \in Workers |-> "idle"]
  /\ UNCHANGED <<storeVars, storeHist, breakerVars, cycle, shutdown, tracing, dry_run, crash, tracer, adapter, startup, timer, pace, adapterVars, rpc,
                 todo, task, events, emitted, faults, ops, bcalls, cd0, batch, acts, xfail>>

\* the keys of PLATFORM_ADAPTERS, in the order of the dict
AdapterNames == <<"twitter", "reddit", "linkedin", "facebook", "instagram", "tiktok">>

\* values an "enabled" entry of the JSON configuration can have
FlagValues == {"absent", "true", "false", "string_false"}

\* bool(platform_config.get(platform_name, {}).get("enabled", False)): a
\* non-empty string is true, whatever it spells
Truthy(v) == v \in {"true", "string_false"}

AdapterFrame ==
  UNCHANGED <<storeVars, storeHist, breakerVars, cycle, shutdown, tracing, dry_run, crash, tracer, adapter, startup, timer, pace, platforms,
              wpc, rpc, todo, task, events, emitted, ops, bcalls, cd0, batch, acts, xfail>>

\* for platform_name, adapter in PLATFORM_ADAPTERS.items(): if not enabled: continue
AdapterSkip ==
  /\ spc = "adapters" /\ ~arun /\ apc < MaxAdapters
  /\ ~Truthy(platforms[apc + 1])
  /\ apc' = apc + 1
  /\ AdapterFrame
  /\ UNCHANGED <<spc, arun, afail, faults>>

\* adapter.process_cycle(platform_config.get(platform_name, {}), dry_run=...) is called
AdapterInvoke ==
  /\ spc = "adapters" /\ ~arun /\ apc < MaxAdapters
  /\ Truthy(platforms[apc + 1])
  /\ apc' = apc + 1
  /\ arun' = TRUE
  /\ AdapterFrame
  /\ UNCHANGED <<spc, afail, faults>>

\* process_cycle returns
AdapterReturn ==
  /\ spc = "adapters" /\ arun
  /\ arun' = FALSE
  /\ AdapterFrame
  /\ UNCHANGED <<spc, apc, afail, faults>>

\* (mutant) Scheduler.run without the try around _run_platform_adapters
AdapterRaiseFatal ==
  /\ spc = "adapters" /\ arun
  /\ faults < MaxFaults
  /\ faults' = faults + 1
  /\ arun' = FALSE
  /\ apc' = 0
  /\ afail' = TRUE
  /\ spc' = "stopped"
  /\ AdapterFrame

\* process_cycle raises: the exception leaves _run_platform_adapters and is
\* caught by except Exception in Scheduler.run; the adapters after it are not run
AdapterRaise ==
  /\ spc = "adapters" /\ arun
  /\ faults < MaxFaults
  /\ faults' = faults + 1
  /\ arun' = FALSE
  /\ apc' = 0
  /\ afail' = TRUE
  /\ spc' = "complete"
  /\ AdapterFrame

\* the loop of _run_platform_adapters is over and the function returns
RunPlatformAdapters ==
  /\ spc = "adapters" /\ ~arun /\ apc = MaxAdapters
  /\ spc' = "complete"
  /\ apc' = 0
  /\ AdapterFrame
  /\ UNCHANGED <<arun, afail, faults>>

\* (mutant) the sleep does not take off what the cycle took
SleepForWholePeriod(interval, jitter, elapsed) == interval + jitter

\* target_period = interval_seconds + cycle_jitter;
\* sleep_for = max(target_period - elapsed, 0)
SleepFor(interval, jitter, elapsed) == Max(interval + jitter - elapsed, 0)

\* elapsed = time.monotonic() - cycle_started, whatever the cycle's work took;
\* sleep_for is computed and cycle_completed emitted
CompleteCycle ==
  /\ spc = "complete"
  /\ spc' = "sleep"
  /\ \E e \in 0 .. MaxElapsed :
       /\ pace' = IF pace.timed THEN [pace EXCEPT !.elapsed = e] ELSE pace
       /\ timer' = SleepFor(startup.config["interval_seconds"], pace.jitter, e)
  /\ events' = IF tracing THEN Append(events, Ev("cycle_completed", "none")) ELSE events
  /\ UNCHANGED <<storeVars, storeHist, breakerVars, cycle, shutdown, tracing, dry_run, crash, tracer, adapter, startup, adapterVars, wpc, rpc,
                 todo, task, emitted, faults, ops, bcalls, cd0, batch, acts, xfail>>

\* (mutant) time.sleep(sleep_for) in place of shutdown_event.wait
SleepOverTimerOnly == timer = 0

\* shutdown_event.wait(timeout=sleep_for) is over: the event is set or the
\* timeout has run out
SleepOver == shutdown \/ timer = 0

\* time passes in shutdown_event.wait
SleepTick ==
  /\ spc = "sleep" /\ ~SleepOver
  /\ timer' = timer - 1
  /\ pace' = IF pace.timed THEN [pace EXCEPT !.slept = @ + 1] ELSE pace
  /\ UNCHANGED <<storeVars, storeHist, breakerVars, spc, cycle, shutdown, tracing, dry_run, crash, tracer, adapter, startup, adapterVars, wpc, rpc,
                 todo, task, events, emitted, faults, ops, bcalls, cd0, batch, acts, xfail>>

\* self.shutdown_event.wait(timeout=sleep_for) returns
SleepReturns ==
  /\ spc = "sleep" /\ SleepOver
  /\ spc' = "loop"
  /\ timer' = 0
  /\ UNCHANGED <<pace, storeVars, storeHist, breakerVars, cycle, shutdown, tracing, dry_run, crash, tracer, adapter, startup, adapterVars, wpc, rpc,
                 todo, task, events, emitted, faults, ops, bcalls, cd0, batch, acts, xfail>>

\* main._handle_shutdown: SIGINT or SIGTERM sets the event. Nothing reads the
\* event between the loop condition and the sleep, so a signal that arrives
\* while the workers run is taken when the cycle is about to complete.
SignalShutdown ==
  /\ ~shutdown /\ spc \in {"loop", "complete", "sleep"}
  /\ shutdown' = TRUE
  /\ UNCHANGED <<storeVars, storeHist, breakerVars, spc, cycle, tracing, dry_run, crash, tracer, adapter, startup, timer, pace, adapterVars, wpc, rpc,
                 todo, task, events, emitted, faults, ops, bcalls, cd0, batch, acts, xfail>>

\* Scheduler.__init__, but for the number of failures the run has had and for
\* the adapter followed through its cycle
SchedBase ==
  /\ spc = "loop"
  /\ cycle = 0
  /\ shutdown = FALSE
  /\ timer = 0
  /\ apc = 0
  /\ arun = FALSE
  /\ afail = FALSE
  /\ wpc = [w \in Workers |-> "idle"]
  /\ rpc = [w \in Workers |-> "idle"]
  /\ todo = [w \in Workers |-> <<>>]
  /\ task = 0
  /\ events = <<>>
  /\ emitted = [w \in Workers |-> <<>>]
  /\ ops = [w \in Workers |-> 0]
  /\ bcalls = [w \in Workers |-> <<>>]
  /\ cd0 = [w \in Workers |-> 0]
  /\ batch = [w \in Workers |-> <<>>]
  /\ xfail = [w \in Workers |-> NoFail]
  /\ acts = [i \in ActIds |-> <<>>]
  /\ crash = [kills |-> 0, orphans |-> {}]
  /\ tracer = NewTracer

SchedStart ==
  /\ SchedBase
  /\ adapter = NoAdapter

SchedInit ==
  /\ SchedStart
  /\ faults = 0

\* ------------------------------------------------------------ specifications
\* config/defaults.yaml as shipped: no platform has an "enabled" entry that is true
NoPlatforms == [i \in 1 .. MaxAdapters |-> "absent"]

\* the configurations Spec starts from: breaker_failure_threshold,
\* breaker_cooldown_cycles, dry_run, and the "enabled" entries of the platforms
Configs ==
  {[threshold |-> 1, cooldown |-> 2, dry |-> TRUE,
    flags |-> [i \in 1 .. MaxAdapters |-> IF i = 2 THEN "true" ELSE "absent"]],
   [threshold |-> 2, cooldown |-> 1, dry |-> FALSE,
    flags |-> [i \in 1 .. MaxAdapters |->
                 IF i = 1 THEN "string_false" ELSE IF i = 2 THEN "true" ELSE "false"]]}

StoreSpecInit ==
  /\ StoreInit
  /\ SchedInit
  /\ tracing = FALSE
  /\ pace = FirstPace(FALSE)
  /\ dry_run = TRUE
  /\ platforms = NoPlatforms
  /\ startup = Constructed(1, 1)
  /\ breaker = [w \in Workers |-> NewBreaker(1, 1)]
  /\ hist = <<>>

StoreNext ==
  \E t \in Callers :
    \/ CallQueueAction(t)
    \/ CallClaimActions(t)
    \/ CallMarkActionStatus(t)
    \/ StoreInsert(t)
    \/ StoreSelect(t)
    \/ StoreFlip(t)
    \/ StoreMark(t)
    \/ Release(t)

StoreSpec == StoreSpecInit /\ [][StoreNext]_vars

BreakerSpecInit ==
  /\ StoreInit
  /\ SchedInit
  /\ tracing = FALSE
  /\ pace = FirstPace(FALSE)
  /\ dry_run = TRUE
  /\ platforms = NoPlatforms
  /\ \E th \in 0 .. MaxThreshold, cd \in 0 .. MaxCooldown :
       /\ startup = Constructed(th, cd)
       /\ breaker = [w \in Workers |-> NewBreaker(th, cd)]
  /\ hist = <<>>

BreakerNext == CallCanRun \/ CallSuccess \/ CallFail

BreakerSpec == BreakerSpecInit /\ [][BreakerNext]_vars

\* Scheduler.__init__ from the configuration file just loaded: no breaker yet
ConfigSpecInit ==
  /\ StoreInit
  /\ SchedInit
  /\ tracing = FALSE
  /\ pace = FirstPace(FALSE)
  /\ dry_run = TRUE
  /\ platforms = NoPlatforms
  /\ \E raw \in [Fields -> Values] :
       startup = [phase |-> "loaded", raw |-> raw, config |-> NoConfig]
  /\ breaker = [w \in Workers |-> [failure_threshold |-> 0, cooldown_cycles |-> 0,
                                    failures |-> 0, cooldown_remaining |-> 0]]
  /\ hist = <<>>

ConfigNext == ParseSchedulerConfig \/ ParseRaises \/ Construct

ConfigSpec == ConfigSpecInit /\ [][ConfigNext]_vars

\* a queued terminal action that was in the store file before this start (put
\* there by an earlier run or by hand): its command and its own key
StoredAction(command, n) ==
  [worker |-> "terminal", payload |-> [command |-> command, cursor |-> 0],
   idempotency_key |-> 0 - n, status |-> "queued"]

StoredRows ==
  UNION {{[i \in 1 .. n |-> StoredAction(c[i], i)] : c \in [1 .. n -> Commands]} : n \in 0 .. MaxRows}

\* Scheduler.__init__ on a store file that holds queued terminal actions, with
\* dry_run true or false
VetSpecInit ==
  /\ rows \in StoredRows
  /\ memory = NoMemory
  /\ StoreOpened
  /\ created = [k \in AllKeys |-> 0]
  /\ claimCount = [i \in AllIds |-> 0]
  /\ run = [w \in Workers |-> NoRun]
  /\ lastSet = NeverSet
  /\ SchedInit
  /\ tracing = FALSE
  /\ pace = FirstPace(FALSE)
  /\ dry_run \in BOOLEAN
  /\ platforms = NoPlatforms
  /\ startup = Constructed(2, 1)
  /\ breaker = Breakers(startup.config)
  /\ hist = <<>>

\* the scheduler loop and both workers, where the only failure is a command
\* that vetting rejects
VetNext ==
  \/ StartCycle
  \/ JoinWorkers
  \/ AdapterSkip
  \/ RunPlatformAdapters
  \/ CompleteCycle
  \/ SleepTick
  \/ SleepReturns
  \/ TerminalSeed
  \/ BrowserGet
  \/ BrowserSet
  \/ BrowserQueue
  \/ VetReject
  \/ \E w \in Workers :
       \/ Seeded(w)
       \/ Claim(w)
       \/ ExecStart(w)
       \/ ExecRun(w)
       \/ MarkDone(w)
       \/ MarkFailed(w)
       \/ WatchCheck(w)
       \/ WatchSuccess(w)
       \/ WatchFailure(w)

VetSpec == VetSpecInit /\ [][VetNext]_vars

\* Scheduler.__init__: an empty store, and both breakers built from the configuration
Init ==
  /\ StoreInit
  /\ SchedInit
  /\ tracing = FALSE
  /\ pace = FirstPace(FALSE)
  /\ \E cfg \in Configs :
       /\ startup = Constructed(cfg.threshold, cfg.cooldown)
       /\ breaker = Breakers(startup.config)
       /\ platforms = cfg.flags
       /\ dry_run = cfg.dry
  /\ hist = <<>>

WorkerNext(w) ==
  \/ Seeded(w)
  \/ Claim(w)
  \/ ExecStart(w)
  \/ ExecRun(w)
  \/ ExecFail(w)
  \/ Hang(w)
  \/ MarkDone(w)
  \/ MarkFailed(w)
  \/ StoreFault(w)

WatchNext(w) ==
  \/ WatchCheck(w)
  \/ WatchSuccess(w)
  \/ WatchFailure(w)
  \/ WatchTimeout(w)
  \/ WatchJoin(w)

Next ==
  \/ StartCycle
  \/ Stop
  \/ JoinWorkers
  \/ AdapterSkip
  \/ AdapterInvoke
  \/ AdapterReturn
  \/ AdapterRaise
  \/ RunPlatformAdapters
  \/ CompleteCycle
  \/ SleepTick
  \/ SleepReturns
  \/ SignalShutdown
  \/ TerminalSeed
  \/ BrowserGet
  \/ BrowserSet
  \/ BrowserQueue
  \/ \E w \in Workers : WorkerNext(w) \/ WatchNext(w)

Spec == Init /\ [][Next]_vars

\* every thread that can take a step is scheduled again: as long as some step
\* of the program is possible, one is taken
FairSpec == Spec /\ WF_vars(Next)

\* the runs in which nothing fails: no storage error, no execution error, no
\* hang, no adapter error; a run_cycle can still outlast the watchdog's timeout
CalmNext ==
  \/ StartCycle
  \/ Stop
  \/ JoinWorkers
  \/ AdapterSkip
  \/ AdapterInvoke
  \/ AdapterReturn
  \/ RunPlatformAdapters
  \/ CompleteCycle
  \/ SleepTick
  \/ SleepReturns
  \/ SignalShutdown
  \/ TerminalSeed
  \/ BrowserGet
  \/ BrowserSet
  \/ BrowserQueue
  \/ \E w \in Workers :
       \/ Seeded(w)
       \/ Claim(w)
       \/ ExecStart(w)
       \/ ExecRun(w)
       \/ MarkDone(w)
       \/ WatchCheck(w)
       \/ WatchSuccess(w)
       \/ WatchTimeout(w)
       \/ WatchJoin(w)

CalmSpec == Init /\ [][CalmNext]_vars /\ WF_vars(CalmNext)

\* the runs in which store operations fail and a run_cycle can outlast the
\* watchdog's timeout, but nothing hangs, no adapter raises and no signal
\* arrives: one platform is enabled, and at most two store operations fail
\* in a run
FaultSpecInit ==
  /\ StoreInit
  /\ SchedStart
  /\ faults = MaxFaults - 2
  /\ tracing = FALSE
  /\ pace = FirstPace(FALSE)
  /\ dry_run = TRUE
  /\ startup = Constructed(2, 1)
  /\ breaker = Breakers(startup.config)
  /\ platforms = [i \in 1 .. MaxAdapters |-> IF i = 1 THEN "true" ELSE "absent"]
  /\ hist = <<>>

FaultNext ==
  \/ StartCycle
  \/ JoinWorkers
  \/ AdapterSkip
  \/ AdapterInvoke
  \/ AdapterReturn
  \/ RunPlatformAdapters
  \/ CompleteCycle
  \/ SleepTick
  \/ SleepReturns
  \/ TerminalSeed
  \/ BrowserGet
  \/ BrowserSet
  \/ BrowserQueue
  \/ \E w \in Workers :
       \/ Seeded(w)
       \/ Claim(w)
       \/ ExecStart(w)
       \/ ExecRun(w)
       \/ MarkDone(w)
       \/ MarkFailed(w)
       \/ StoreFault(w)
       \/ WatchCheck(w)
       \/ WatchSuccess(w)
       \/ WatchFailure(w)
       \/ WatchTimeout(w)
       \/ WatchJoin(w)

\* every thread that can take a step is scheduled again
FaultSpec == FaultSpecInit /\ [][FaultNext]_vars /\ WF_vars(FaultNext)

\* (mutant) a start that puts the actions found in processing back to queued
RestartRequeue ==
  /\ spc # "stopped"
  /\ crash.kills < MaxKills
  /\ crash' = [kills |-> crash.kills + 1,
               orphans |-> crash.orphans \cup {i \in Ids(rows) : rows[i].status = "processing"}]
  /\ lock' = "free"
  /\ call' = [t \in Threads |-> NoCall]
  /\ breaker' = Breakers(startup.config)
  /\ spc' = "loop"
  /\ shutdown' = FALSE
  /\ timer' = 0
  /\ pace' = NewPace(0)
  /\ apc' = 0
  /\ arun' = FALSE
  /\ wpc' = [w \in Workers |-> "idle"]
  /\ rpc' = [w \in Workers |-> "idle"]
  /\ todo' = [w \in Workers |-> <<>>]
  /\ task' = 0
  /\ emitted' = [w \in Workers |-> <<>>]
  /\ ops' = [w \in Workers |-> 0]
  /\ bcalls' = [w \in Workers |-> <<>>]
  /\ cd0' = [w \in Workers |-> 0]
  /\ batch' = [w \in Workers |-> <<>>]
  /\ xfail' = [w \in Workers |-> NoFail]
  /\ rows' = [i \in Ids(rows) |->
                IF rows[i].status = "processing" THEN [rows[i] EXCEPT !.status = "queued"]
                ELSE rows[i]]
  /\ UNCHANGED <<memory, storeHist, hist, startup, cycle, platforms, afail, tracing,
                 events, faults, dry_run, acts, tracer, adapter>>

\* the process is killed (SIGKILL, power loss) and started again: what the
\* store file holds is kept, a transaction in progress having been rolled
\* back; threads, breakers and the state of the loop are those of a new
\* Scheduler
Restart ==
  /\ spc # "stopped"
  /\ crash.kills < MaxKills
  /\ crash' = [kills |-> crash.kills + 1,
               orphans |-> crash.orphans \cup {i \in Ids(rows) : rows[i].status = "processing"}]
  /\ lock' = "free"
  /\ call' = [t \in Threads |-> NoCall]
  /\ breaker' = Breakers(startup.config)
  /\ spc' = "loop"
  /\ shutdown' = FALSE
  /\ timer' = 0
  /\ pace' = NewPace(0)
  /\ apc' = 0
  /\ arun' = FALSE
  /\ wpc' = [w \in Workers |-> "idle"]
  /\ rpc' = [w \in Workers |-> "idle"]
  /\ todo' = [w \in Workers |-> <<>>]
  /\ task' = 0
  /\ emitted' = [w \in Workers |-> <<>>]
  /\ ops' = [w \in Workers |-> 0]
  /\ bcalls' = [w \in Workers |-> <<>>]
  /\ cd0' = [w \in Workers |-> 0]
  /\ batch' = [w \in Workers |-> <<>>]
  /\ xfail' = [w \in Workers |-> NoFail]
  /\ UNCHANGED <<rows, memory, storeHist, hist, startup, cycle, platforms, afail, tracing,
                 events, faults, dry_run, acts, tracer, adapter>>

\* runs in which nothing fails and no worker outlasts the watchdog,
\* interrupted by kills
CrashNext ==
  \/ StartCycle
  \/ JoinWorkers
  \/ AdapterSkip
  \/ AdapterInvoke
  \/ AdapterReturn
  \/ RunPlatformAdapters
  \/ CompleteCycle
  \/ SleepTick
  \/ SleepReturns
  \/ TerminalSeed
  \/ BrowserGet
  \/ BrowserSet
  \/ BrowserQueue
  \/ Restart
  \/ \E w \in Workers :
       \/ Seeded(w)
       \/ Claim(w)
       \/ ExecStart(w)
       \/ ExecRun(w)
       \/ MarkDone(w)
       \/ WatchCheck(w)
       \/ WatchSuccess(w)

CrashSpec == Init /\ [][CrashNext]_vars

\* interval_seconds of the configurations CadenceSpec starts from: intervals
\* a cycle's work can outlast, and the default one
Intervals == 1 .. MaxElapsed \cup {DefaultInterval}

\* a first start where time is followed: the interval and jitter_seconds are
\* those of the configuration, each cycle measures what it took and the ticks
\* of its sleep are counted
CadenceSpecInit ==
  /\ StoreInit
  /\ SchedInit
  /\ tracing = FALSE
  /\ pace = FirstPace(TRUE)
  /\ dry_run = TRUE
  /\ platforms = NoPlatforms
  /\ \E interval \in Intervals, jitter \in 0 .. MaxJitter :
       startup = ConstructedWith(interval, jitter, 2, 1)
  /\ breaker = Breakers(startup.config)
  /\ hist = <<>>

\* runs in which nothing fails and no worker outlasts the watchdog, until a
\* shutdown signal if there is one
CadenceNext ==
  \/ StartCycle
  \/ Stop
  \/ JoinWorkers
  \/ AdapterSkip
  \/ RunPlatformAdapters
  \/ CompleteCycle
  \/ SleepTick
  \/ SleepReturns
  \/ SignalShutdown
  \/ TerminalSeed
  \/ BrowserGet
  \/ BrowserSet
  \/ BrowserQueue
  \/ \E w \in Workers :
       \/ Seeded(w)
       \/ Claim(w)
       \/ ExecStart(w)
       \/ ExecRun(w)
       \/ MarkDone(w)
       \/ WatchCheck(w)
       \/ WatchSuccess(w)

CadenceSpec == CadenceSpecInit /\ [][CadenceNext]_vars

\* callers read and write the memory table of a store that holds queued actions
MemorySpecInit ==
  /\ rows = [i \in 1 .. MaxRows |-> StoredAction("/bin/echo", i)]
  /\ memory = NoMemory
  /\ StoreOpened
  /\ created = [k \in AllKeys |-> 0]
  /\ claimCount = [i \in AllIds |-> 0]
  /\ run = [w \in Workers |-> NoRun]
  /\ lastSet = NeverSet
  /\ SchedInit
  /\ tracing = FALSE
  /\ pace = FirstPace(FALSE)
  /\ dry_run = TRUE
  /\ platforms = NoPlatforms
  /\ startup = Constructed(1, 1)
  /\ breaker = [w \in Workers |-> NewBreaker(1, 1)]
  /\ hist = <<>>

MemoryNext ==
  \E t \in Callers :
    \/ CallSetMemory(t)
    \/ CallGetMemory(t)
    \/ StoreSet(t)
    \/ StoreGet(t)
    \/ Release(t)

MemorySpec == MemorySpecInit /\ [][MemoryNext]_vars

\* threads that call EventTracer.emit at any time
TracerSpecInit ==
  /\ StoreInit
  /\ SchedInit
  /\ tracing = FALSE
  /\ pace = FirstPace(FALSE)
  /\ dry_run = TRUE
  /\ platforms = NoPlatforms
  /\ startup = Constructed(1, 1)
  /\ breaker = [w \in Workers |-> NewBreaker(1, 1)]
  /\ hist = <<>>

TracerNext ==
  \E t \in Threads :
    \/ EmitAcquire(t)
    \/ EmitWriteWhole(t)
    \/ EmitWriteHead(t)
    \/ EmitWriteTail(t)
    \/ EmitRelease(t)

TracerSpec == TracerSpecInit /\ [][TracerNext]_vars

\* a first start with dry_run true, where the whole of logs/events.jsonl is
\* recorded in the order in which it is written
TraceSpecInit ==
  /\ StoreInit
  /\ SchedInit
  /\ tracing = TRUE
  /\ pace = FirstPace(FALSE)
  /\ dry_run = TRUE
  /\ \E cfg \in Configs :
       /\ startup = Constructed(cfg.threshold, cfg.cooldown)
       /\ breaker = Breakers(startup.config)
       /\ platforms = cfg.flags
  /\ hist = <<>>

TraceSpec == TraceSpecInit /\ [][CalmNext]_vars

\* ------------------------------------------- workers' store calls, in steps
\* The store operations of run_cycle, statement by statement: the worker's
\* thread takes the store lock, executes the statements of the operation,
\* releases the lock and goes on in run_cycle with what the operation returned.
StorePcs == {"seed", "get", "set", "queue", "claim", "mark_done"}

\* the store operation run_cycle calls where worker w is
NextCall(w) ==
  CASE rpc[w] = "seed" -> QueueCall("terminal", EchoCommand, TerminalKey)
    [] rpc[w] = "get" -> GetCall("browser.tasks", Some(CursorDoc(0)))
    [] rpc[w] = "set" -> SetCall("browser.tasks", CursorDoc(task + 1))
    [] rpc[w] = "queue" -> QueueCall("browser", BrowserTask(task), BrowserKey(task))
    [] rpc[w] = "claim" -> ClaimCall(w, ClaimLimit)
    [] rpc[w] = "mark_done" -> MarkCall(Head(todo[w]), "done")

\* with self._lock, self._connect() as connection: in the thread of worker w
WorkerCall(w) ==
  /\ rpc[w] \in StorePcs
  /\ wpc[w] = "wait"
  /\ Enter(w, NextCall(w))
  /\ UNCHANGED <<schedVars, faults>>

\* where run_cycle goes on after the store operation c, which has left the
\* lock as held, has returned
AfterCall(w, c, held) ==
  /\ lock' = held
  /\ call' = [call EXCEPT ![w] = NoCall]
  /\ ops' = [ops EXCEPT ![w] = @ + 1]
  /\ rpc' = [rpc EXCEPT ![w] =
               CASE c.op = "queue_action" -> AfterQueue(c.res)
                 [] c.op = "get_memory" -> "set"
                 [] c.op = "set_memory" -> "queue"
                 [] c.op = "claim_actions" -> IF c.sel = <<>> THEN "returned" ELSE "exec_start"
                 [] c.op = "mark_action_status" ->
                      IF Len(todo[w]) = 1 THEN "returned" ELSE "exec_start"]
  /\ task' = IF c.op = "get_memory" THEN c.out["cursor"] ELSE task
  /\ todo' = [todo EXCEPT ![w] =
                CASE c.op = "claim_actions" -> c.sel
                  [] c.op = "mark_action_status" -> Tail(@)
                  [] OTHER -> @]
  /\ batch' = [batch EXCEPT ![w] = IF c.op = "claim_actions" THEN c.sel ELSE @]
  /\ UNCHANGED <<rows, memory, storeHist, breakerVars, spc, cycle, shutdown, tracing,
                 dry_run, crash, tracer, adapter, startup, timer, pace, adapterVars, wpc, bcalls,
                 cd0, events, emitted, faults, acts, xfail>>

\* (mutant) a store operation that returns without releasing the lock
WorkerReturnHolding(w) ==
  /\ w \in Workers
  /\ call[w].pc = "release"
  /\ AfterCall(w, call[w], w)

\* leaving the with block: commit, release the lock, return to run_cycle
WorkerReturn(w) ==
  /\ w \in Workers
  /\ call[w].pc = "release"
  /\ AfterCall(w, call[w], "free")

\* one cycle of both workers, each store operation in steps; neither worker
\* fails and the side effect of an action takes as long as it takes
LockNext ==
  \/ StartCycle
  \/ \E w \in Workers :
       \/ WatchCheck(w)
       \/ WorkerCall(w)
       \/ StoreInsert(w)
       \/ StoreSelect(w)
       \/ StoreFlip(w)
       \/ StoreMark(w)
       \/ StoreSet(w)
       \/ StoreGet(w)
       \/ WorkerReturn(w)
       \/ Seeded(w)
       \/ ExecStart(w)
       \/ ExecRun(w)
       \/ WatchSuccess(w)

LockSpec == StoreSpecInit /\ [][LockNext]_vars

\* --------------------------------------- one watchdog task, as one step
\* what the watchdog task can end with when run_cycle was started
Outcomes3 == {"worker_success", "worker_timeout", "worker_failure"}

\* _run_worker_with_watchdog(worker_name, runner) from its first statement to
\* its return: can_run() once; if it is false, worker_skipped_breaker;
\* otherwise run_cycle under the watchdog, then success() or fail(). hist
\* gets the event the task emitted and whether run_cycle was started.
RunWorkerWithWatchdog(w, outcome) ==
  /\ Len(hist) < MaxCalls
  /\ IF CanRunResult(breaker[w])
       THEN /\ breaker' = [breaker EXCEPT ![w] =
                             IF outcome = "worker_success"
                               THEN Success(CanRun(@)) ELSE Fail(CanRun(@))]
            /\ hist' = Append(hist, [call |-> outcome, res |-> TRUE])
       ELSE /\ breaker' = [breaker EXCEPT ![w] = CanRun(@)]
            /\ hist' = Append(hist, [call |-> "worker_skipped_breaker", res |-> FALSE])
  /\ UNCHANGED <<storeVars, storeHist, schedVars, faults>>

\* the cycles of one worker, one after the other, whatever its run_cycle does
PatternNext == \E outcome \in Outcomes3 : RunWorkerWithWatchdog(Probe, outcome)

PatternSpec == BreakerSpecInit /\ [][PatternNext]_vars



\* ------------------------------------------------- one adapter's cycle
\* backoff_base_seconds and max_backoff_seconds, in ticks: the backoff reaches
\* its cap at the third, at the second and at the first failed attempt
BackoffPolicies ==
  {[base |-> 1, max |-> 2], [base |-> 3, max |-> 4], [base |-> 3, max |-> 2]}

\* an adapter of any capabilities and policy, handed the scheduler's dry_run
AdapterSpecInit ==
  /\ StoreInit
  /\ SchedBase
  /\ faults = 0
  /\ tracing = FALSE
  /\ pace = FirstPace(FALSE)
  /\ platforms = NoPlatforms
  /\ startup = Constructed(1, 1)
  /\ breaker = [w \in Workers |-> NewBreaker(1, 1)]
  /\ hist = <<>>
  /\ dry_run \in BOOLEAN
  /\ \E capabilities \in [{"can_login", "can_fetch_feed", "can_draft_response", "can_post"} -> BOOLEAN],
        max_retries \in 0 .. MaxRetries, backoff \in BackoffPolicies :
       adapter = NewAdapter(capabilities,
                            [max_retries |-> max_retries, backoff_base_seconds |-> backoff.base,
                             max_backoff_seconds |-> backoff.max])

\* process_cycle(config, dry_run) of PlatformAdapter, step by step
AdapterNext ==
  \/ \E res \in {"true", "false"} : HealthCheck(res)
  \/ HealthCheckRaises
  \/ SkipLogin
  \/ SkipFetchFeed
  \/ NoDraftResponse
  \/ WithRetry
  \/ ApplyRateLimit
  \/ \E res \in {"true", "false", "feed"} : ActionReturns(res, NoContent)
  \/ \E content \in Drafts : ActionReturns("draft", content)
  \/ ActionRaises
  \/ \E jitter \in 0 .. MaxJitter : SleepBackoff(jitter)

\* every call and every sleep returns or raises
AdapterSpec == AdapterSpecInit /\ [][AdapterNext]_vars /\ WF_vars(AdapterNext)
\* ------------------------------------------------------------------ claims
InCall(t, op, pc) == call[t].op = op /\ call[t].pc = pc

RowsWithKey(k) == {i \in DOMAIN rows : rows[i].idempotency_key = k}

\* C1: queued_actions never holds two rows with the same idempotency_key; a
\* queue_action whose key is not in the table returns true and appends exactly one
\* row in status queued; a queue_action whose key is in the table (any worker,
\* any payload, any status of the existing row) returns false and leaves the
\* table unchanged.
C1_Step(t) ==
  (InCall(t, "queue_action", "insert") /\ call'[t].pc = "release") =>
    IF RowsWithKey(call[t].key) # {}
      THEN call'[t].res = FALSE /\ rows' = rows
      ELSE /\ call'[t].res = TRUE
           /\ Len(rows') = Len(rows) + 1
           /\ \A i \in DOMAIN rows : rows'[i] = rows[i]
           /\ rows'[Len(rows')] = [worker |-> call[t].worker, payload |-> call[t].payload,
                                   idempotency_key |-> call[t].key, status |-> "queued"]

C1_QueueActionIdempotent ==
  [][(\A k \in Keys : Cardinality({i \in DOMAIN rows' : rows'[i].idempotency_key = k}) <= 1)
     /\ \A t \in Threads : C1_Step(t)]_vars

\* a duplicate call is returning false: other worker, other payload, and the row
\* that holds the key is no longer queued
C1_Witness ==
  \E t \in Threads, i \in DOMAIN rows :
    /\ InCall(t, "queue_action", "release") /\ call[t].res = FALSE
    /\ rows[i].idempotency_key = call[t].key
    /\ rows[i].worker # call[t].worker
    /\ rows[i].payload # call[t].payload
    /\ rows[i].status = "done"

\* C2: among the queue_action calls that carry one idempotency key, whatever
\* their interleaving, at most one returns true, exactly one when the key was
\* absent, and exactly one row with that key exists once any of them has run.
ReturningTrue(k) ==
  {t \in Threads : InCall(t, "queue_action", "release") /\ call[t].key = k /\ call[t].res}

C2_AtMostOneCreated ==
  \A k \in Keys :
    /\ created[k] + Cardinality(ReturningTrue(k)) <= 1
    /\ Cardinality(RowsWithKey(k)) = created[k] + Cardinality(ReturningTrue(k))
    /\ (\E t \in Threads : InCall(t, "queue_action", "release") /\ call[t].key = k)
         => Cardinality(RowsWithKey(k)) = 1

\* one caller got true for the key, the other is getting false for it
C2_Witness ==
  \E t \in Threads, k \in Keys :
    /\ created[k] = 1
    /\ InCall(t, "queue_action", "release") /\ call[t].key = k /\ call[t].res = FALSE

\* C3: no id is returned by two claim_actions calls, and once the calls of a run
\* of claims on one worker have returned, the ids they returned are ids queued
\* for the worker before the run, as many as the limits allow: all of them when
\* the limits together cover the queue.
Claiming(i) ==
  {t \in Threads : InCall(t, "claim_actions", "release") /\ i \in Range(call[t].sel)}

ClaimInFlight(w) ==
  \E t \in Threads : call[t].op = "claim_actions" /\ call[t].worker = w
                     /\ call[t].pc \in {"select", "flip", "release"}

C3_ClaimExclusive ==
  /\ \A i \in DOMAIN claimCount : claimCount[i] + Cardinality(Claiming(i)) <= 1
  /\ \A w \in Workers :
       (run[w].active /\ ~ClaimInFlight(w)) =>
         /\ run[w].got \subseteq run[w].q0
         /\ Cardinality(run[w].got) = Min(run[w].lim, Cardinality(run[w].q0))
         /\ (run[w].lim >= Cardinality(run[w].q0) => run[w].got = run[w].q0)

\* two ids were queued, one call returned the first, another is returning the second
C3_Witness ==
  \E w \in Workers, t \in Threads :
    /\ run[w].active /\ Cardinality(run[w].q0) = 2 /\ Cardinality(run[w].got) = 1
    /\ InCall(t, "claim_actions", "release") /\ call[t].worker = w
    /\ Len(call[t].sel) = 1
    /\ run[w].q0 = run[w].got \cup Range(call[t].sel)

\* C4: claim_actions(worker, limit) selects the min(limit, n) lowest ids among
\* the n queued actions of the worker, in strictly ascending order, and moves
\* exactly those from queued to processing; every other row is unchanged.
C4_Select(t) ==
  (InCall(t, "claim_actions", "select") /\ call'[t].pc = "flip") =>
    LET Q == {i \in DOMAIN rows : rows[i].worker = call[t].worker /\ rows[i].status = "queued"}
        sel == call'[t].sel
    IN /\ Len(sel) = Min(call[t].limit, Cardinality(Q))
       /\ \A a, b \in DOMAIN sel : a < b => sel[a] < sel[b]
       /\ \A a \in DOMAIN sel : sel[a] \in Q
       /\ \A a \in DOMAIN sel : \A j \in Q : j < sel[a] => \E b \in DOMAIN sel : sel[b] = j

C4_Flip(t) ==
  (InCall(t, "claim_actions", "flip") /\ call'[t].pc = "release") =>
    /\ DOMAIN rows' = DOMAIN rows
    /\ \A i \in DOMAIN rows :
         IF \E a \in DOMAIN call[t].sel : call[t].sel[a] = i
           THEN /\ rows[i].status = "queued"
                /\ rows'[i] = [rows[i] EXCEPT !.status = "processing"]
           ELSE rows'[i] = rows[i]

C4_ClaimLowestAscending ==
  [][\A t \in Threads : C4_Select(t) /\ C4_Flip(t)]_vars

\* a claim with limit 1 is returning the lower of two queued ids of its worker
C4_Witness ==
  \E t \in Threads, j \in DOMAIN rows :
    /\ InCall(t, "claim_actions", "release") /\ call[t].limit = 1 /\ Len(call[t].sel) = 1
    /\ rows[call[t].sel[1]].status = "processing"
    /\ rows[j].worker = call[t].worker /\ rows[j].status = "queued" /\ j > call[t].sel[1]

\* ---- the breaker, read off the recorded calls
B == breaker[Probe]

RECURSIVE Streak(_)
\* the fail() calls among the first n calls since the last success() or trip
Streak(n) ==
  IF n = 0 THEN 0
  ELSE IF hist[n].call = "success" THEN 0
  ELSE IF hist[n].call = "can_run" THEN Streak(n - 1)
  ELSE IF Streak(n - 1) + 1 >= B.failure_threshold THEN 0
  ELSE Streak(n - 1) + 1

TripAt(n) ==
  n \in DOMAIN hist /\ hist[n].call = "fail" /\ Streak(n - 1) + 1 >= B.failure_threshold

LastTrip(n) ==
  IF \E j \in 1 .. n : TripAt(j)
    THEN CHOOSE j \in 1 .. n : TripAt(j) /\ \A m \in 1 .. n : TripAt(m) => m <= j
    ELSE 0

ChecksBetween(j, n) == Cardinality({m \in (j + 1) .. n : hist[m].call = "can_run"})

\* C7: can_run() returns false exactly on the first cooldown_cycles checks after
\* failure_threshold fail() calls with no success() between them, and true on
\* every other check; without such a run of failures it never returns false.
C7_TripAndRecover ==
  \A n \in DOMAIN hist :
    hist[n].call = "can_run" =>
      (hist[n].res = FALSE <=>
         (LastTrip(n) > 0 /\ ChecksBetween(LastTrip(n), n) <= B.cooldown_cycles))

\* threshold 3, cooldown 2: fail, fail, fail, then can_run false, false, true
C7_Witness ==
  /\ B.failure_threshold = 3 /\ B.cooldown_cycles = 2
  /\ Len(hist) = 6
  /\ \A n \in 1 .. 3 : hist[n].call = "fail"
  /\ \A n \in 4 .. 6 : hist[n].call = "can_run"
  /\ hist[4].res = FALSE /\ hist[5].res = FALSE /\ hist[6].res = TRUE

RECURSIVE TrailingFails(_)
\* the fail() calls at the end of the first n calls, back to the last success()
TrailingFails(n) ==
  IF n = 0 THEN 0
  ELSE IF hist'[n].call = "success" THEN 0
  ELSE IF hist'[n].call = "can_run" THEN TrailingFails(n - 1)
  ELSE TrailingFails(n - 1) + 1

\* C8: success() sets failures to 0 and leaves cooldown_remaining alone, and a
\* fail() trips the breaker (cooldown set, counter back to 0) only when it is the
\* last of failure_threshold fail() calls with no success() between them.
C8_Step ==
  hist' # hist =>
    LET c == hist'[Len(hist')].call
    IN /\ c = "success" =>
            /\ breaker'[Probe].failures = 0
            /\ breaker'[Probe].cooldown_remaining = B.cooldown_remaining
       /\ (c = "fail" /\ breaker'[Probe].failures = 0) =>
            /\ TrailingFails(Len(hist')) >= B.failure_threshold
            /\ breaker'[Probe].cooldown_remaining = B.cooldown_cycles
       /\ (c = "fail" /\ breaker'[Probe].failures # 0) =>
            breaker'[Probe].cooldown_remaining = B.cooldown_remaining

C8_SuccessResets == [][C8_Step]_vars

\* threshold 2: fail, success, fail: two failures in all, and no trip
C8_Witness ==
  /\ B.failure_threshold = 2
  /\ Len(hist) = 3
  /\ hist[1].call = "fail" /\ hist[2].call = "success" /\ hist[3].call = "fail"
  /\ B.failures = 1 /\ B.cooldown_remaining = 0

Last(s) == s[Len(s)]

\* C5: the status of an action changes only from queued to processing and from
\* processing to done or failed, no row is removed, and a claim_actions of a
\* worker cycle returns only actions that were queued: an action that is done or
\* failed keeps its status and is not claimed again.
C5_Step ==
  /\ Len(rows') >= Len(rows)
  /\ \A i \in DOMAIN rows :
       rows'[i].status # rows[i].status =>
         \/ rows[i].status = "queued" /\ rows'[i].status = "processing"
         \/ rows[i].status = "processing" /\ rows'[i].status \in Terminal
  /\ \A w \in Workers :
       (rpc[w] = "claim" /\ rpc'[w] # "claim") =>
         \A i \in Range(todo'[w]) : i \in DOMAIN rows /\ rows[i].status = "queued"

C6_BatchSettledAfterFailure ==
  \A w \in Workers :
    (rpc[w] \in {"returned", "raised"} /\ todo[w] # <<>>
       /\ rows[Head(todo[w])].status = "failed") =>
      \A i \in Range(Tail(todo[w])) : rows[i].status \in Terminal

\* C9: in a cycle that a worker's breaker starts in cooldown, its run_cycle is
\* not started and the worker makes no store call; once its watchdog task has
\* run, can_run is the only breaker call made, worker_skipped_breaker is the
\* only event that names the worker, and cooldown_remaining is one less.
C9_SkippedInCooldown ==
  \A w \in Workers :
    cd0[w] > 0 =>
      /\ rpc[w] = "idle" /\ todo[w] = <<>>
      /\ ops[w] = 0
      /\ wpc[w] \in {"check", "finished", "idle"}
      /\ IF wpc[w] = "check"
           THEN /\ bcalls[w] = <<>> /\ emitted[w] = <<>>
                /\ breaker[w].cooldown_remaining = cd0[w]
           ELSE /\ bcalls[w] = <<"can_run">>
                /\ emitted[w] = <<"worker_skipped_breaker">>
                /\ breaker[w].cooldown_remaining = cd0[w] - 1

\* a worker was skipped in a cycle in which its sibling ran and made store calls
C9_Witness ==
  \E w \in Workers, s \in Workers :
    /\ cd0[w] > 0 /\ wpc[w] = "finished"
    /\ emitted[w] = <<"worker_skipped_breaker">>
    /\ s # w /\ cd0[s] = 0 /\ ops[s] > 0

Outcomes == {"worker_success", "worker_failure", "worker_timeout", "worker_skipped_breaker"}

OutcomesOf(w) == SelectSeq(emitted[w], LAMBDA e : e \in Outcomes)

\* the step records a timeout or a failure of worker a
RecordsFail(a) == Len(bcalls'[a]) > Len(bcalls[a]) /\ Last(bcalls'[a]) = "fail"

\* C10: a step that records the timeout or the failure of one worker (fail() on
\* its breaker, worker_timeout or worker_failure in the log) changes nothing of
\* its sibling: not its run_cycle, its watchdog task, its breaker, its events.
C10_Step ==
  \A a \in Workers, b \in Workers :
    (a # b /\ RecordsFail(a)) =>
      /\ bcalls'[a] = <<"can_run", "fail">>
      /\ \E e \in {"worker_timeout", "worker_failure"} : emitted'[a] = Append(emitted[a], e)
      /\ UNCHANGED <<rpc[b], wpc[b], todo[b], breaker[b], bcalls[b], emitted[b], ops[b]>>

\* a step of the run_cycle of worker b
RunCycleStep(b) ==
  \/ WorkerNext(b)
  \/ b = "terminal" /\ TerminalSeed
  \/ b = "browser" /\ (BrowserGet \/ BrowserSet \/ BrowserQueue)

\* C10: and whatever its sibling does, a worker that is allowed to run goes
\* on: a run_cycle under way has a next step, a run_cycle that returned in
\* time gets success() and worker_success, and these are then the only breaker
\* call after can_run and the only outcome recorded for it.
C10_Sibling ==
  \A b \in Workers :
    /\ (rpc[b] \notin {"idle", "returned", "raised", "hung"}) => ENABLED RunCycleStep(b)
    /\ (wpc[b] = "wait" /\ rpc[b] = "returned") =>
         ENABLED WatchSuccess(b) /\ ~ENABLED WatchTimeout(b) /\ ~ENABLED WatchFailure(b)
    /\ (wpc[b] = "finished" /\ OutcomesOf(b) = <<"worker_success">>) =>
         bcalls[b] = <<"can_run", "success">>
    /\ (wpc[b] = "finished" /\ cd0[b] = 0) => Len(OutcomesOf(b)) = 1

C10_WatchdogIsolation == [][C10_Step]_vars /\ []C10_Sibling

\* one worker has timed out and its run_cycle is still running, while its
\* sibling has completed and reported worker_success
C10_Witness ==
  \E a \in Workers, b \in Workers :
    /\ a # b
    /\ wpc[a] = "joining" /\ rpc[a] \notin {"returned", "raised"}
    /\ OutcomesOf(a) = <<"worker_timeout">> /\ bcalls[a] = <<"can_run", "fail">>
    /\ wpc[b] = "finished" /\ OutcomesOf(b) = <<"worker_success">>
    /\ bcalls[b] = <<"can_run", "success">>

\* C11: when a run_cycle hangs, the scheduler still gets to the end of the
\* cycle: cycle_completed is emitted and the scheduler sleeps.
C11_HangDoesNotBlock ==
  \A w \in Workers : (rpc[w] = "hung") ~> (spc = "sleep")

\* the breaker calls that go with the outcomes recorded for a worker
BreakerCallsFor(out) ==
  IF out = <<>> THEN {<<>>, <<"can_run">>}
  ELSE IF out = <<"worker_skipped_breaker">> THEN {<<"can_run">>}
  ELSE IF out = <<"worker_success">> THEN {<<"can_run", "success">>}
  ELSE IF out \in {<<"worker_timeout">>, <<"worker_failure">>} THEN {<<"can_run", "fail">>}
  ELSE {}

\* the step records the outcome e for worker w
Records(w, e) == OutcomesOf(w)' = Append(OutcomesOf(w), e)

\* C12 (the steps): an outcome is recorded only between the cycle_started and
\* the cycle_completed of its cycle, that is while Scheduler.run waits for the
\* two watchdog tasks, and it is the outcome of what happened: skipped for a
\* breaker in cooldown, success for a run_cycle that returned, failure for one
\* that raised, timeout for one still running.
C12_Step ==
  \A w \in Workers :
    /\ OutcomesOf(w)' # OutcomesOf(w) =>
         \/ spc = "loop" /\ spc' = "join" /\ OutcomesOf(w)' = <<>>
         \/ spc = "join" /\ spc' = "join" /\ \E e \in Outcomes : Records(w, e)
    /\ Records(w, "worker_skipped_breaker") => cd0[w] > 0
    /\ Records(w, "worker_success") => cd0[w] = 0 /\ rpc[w] = "returned"
    /\ Records(w, "worker_failure") => cd0[w] = 0 /\ rpc[w] = "raised"
    /\ Records(w, "worker_timeout") =>
         cd0[w] = 0 /\ rpc[w] \notin {"idle", "returned", "raised"}

\* C12 (the states): a worker never has two outcomes in a cycle, the breaker
\* calls of the cycle are those of its outcome, and when the cycle is past its
\* workers each of them has its outcome.
C12_Outcome ==
  \A w \in Workers :
    /\ bcalls[w] \in BreakerCallsFor(OutcomesOf(w))
    /\ (cycle > 0 /\ spc # "join") => Len(OutcomesOf(w)) = 1

C12_OneOutcomePerCycle == [][C12_Step]_vars /\ []C12_Outcome

\* a cycle is over with one worker skipped and the other failed
C12_Witness ==
  \E a \in Workers, b \in Workers :
    /\ spc = "sleep"
    /\ OutcomesOf(a) = <<"worker_skipped_breaker">> /\ bcalls[a] = <<"can_run">>
    /\ OutcomesOf(b) = <<"worker_failure">> /\ bcalls[b] = <<"can_run", "fail">>

\* the watchdog task of worker w has ended in the current cycle
Ended(w) == wpc[w] \in {"finished", "idle"}

\* the actions of the batch of w that come before action i
Before(w, i) == {batch[w][n] : n \in {m \in DOMAIN batch[w] : batch[w][m] < i}}

\* C13 (as stated): when the execution of a claimed action has failed, the
\* action is failed once run_cycle has ended, run_cycle does not return
\* normally, the watchdog task ends with exactly one fail() and worker_failure
\* as the outcome, and the actions of the batch executed before it are done.
C13_FailureMarkedAndReported ==
  \A w \in Workers :
    xfail[w].exec # 0 =>
      /\ rpc[w] \in {"mark_failed", "raised", "idle"}
      /\ rpc[w] \in {"raised", "idle"} => rows[xfail[w].exec].status = "failed"
      /\ Ended(w) =>
           bcalls[w] = <<"can_run", "fail">> /\ OutcomesOf(w) = <<"worker_failure">>
      /\ \A j \in Before(w, xfail[w].exec) : rows[j].status = "done"

\* C13 (amended): when the execution of a claimed action has failed, run_cycle
\* calls mark_action_status(id, "failed") and an exception leaves run_cycle
\* whether that call succeeds or raises; the action is failed unless that call
\* raised, and then it is still processing. The watchdog task ends with exactly
\* one fail() and one outcome, worker_failure, or worker_timeout when the
\* timeout was recorded before run_cycle ended. The actions of the batch
\* executed before it are done.
C13_FailurePropagates ==
  \A w \in Workers :
    xfail[w].exec # 0 =>
      /\ rpc[w] \in {"mark_failed", "raised", "idle"}
      /\ rpc[w] \in {"raised", "idle"} =>
           rows[xfail[w].exec].status = IF xfail[w].mark THEN "processing" ELSE "failed"
      /\ OutcomesOf(w) \in {<<>>, <<"worker_failure">>, <<"worker_timeout">>}
      /\ OutcomesOf(w) = <<"worker_failure">> => rpc[w] = "idle"
      /\ Ended(w) =>
           /\ bcalls[w] = <<"can_run", "fail">>
           /\ OutcomesOf(w) # <<>>
      /\ \A j \in Before(w, xfail[w].exec) : rows[j].status = "done"

\* a batch of two: the first action is done, the execution of the second
\* failed, it is failed and the cycle's outcome for the worker is worker_failure
C13_Witness ==
  \E w \in Workers :
    /\ Len(batch[w]) = 2
    /\ xfail[w] = [exec |-> batch[w][2], mark |-> FALSE, store |-> FALSE]
    /\ rows[batch[w][1]].status = "done"
    /\ rows[batch[w][2]].status = "failed"
    /\ wpc[w] = "finished"
    /\ OutcomesOf(w) = <<"worker_failure">> /\ bcalls[w] = <<"can_run", "fail">>

\* C14: the step that records a worker_timeout makes no store call and changes
\* no row, and a row becomes failed only in the except clause of the run_cycle
\* that holds it, as the action in hand of its worker.
C14_Step ==
  /\ \A w \in Workers :
       Records(w, "worker_timeout") => rows' = rows /\ memory' = memory /\ ops' = ops
  /\ \A i \in DOMAIN rows :
       (rows'[i].status = "failed" /\ rows[i].status # "failed") =>
         \E w \in Workers :
           /\ rpc[w] = "mark_failed" /\ rpc'[w] = "raised"
           /\ todo[w] # <<>> /\ Head(todo[w]) = i
           /\ rows[i].worker = w

C14_TimeoutMarksNothing == [][C14_Step]_vars

\* the terminal worker's run_cycle timed out with its action claimed and has
\* since returned: the action is done
C14_Witness ==
  /\ OutcomesOf("terminal") = <<"worker_timeout">>
  /\ wpc["terminal"] = "joining" /\ rpc["terminal"] = "returned"
  /\ Len(batch["terminal"]) = 1
  /\ rows[batch["terminal"][1]].status = "done"

\* C15: the flag is never cleared; a cycle starts only at a check of the loop
\* condition that finds the flag unset; once the flag is set no cycle starts,
\* and the next check of the loop condition ends the loop.
C15_Step ==
  /\ shutdown => shutdown'
  /\ cycle' # cycle => (~shutdown /\ spc = "loop" /\ cycle' = cycle + 1)
  /\ shutdown => cycle' = cycle
  /\ (shutdown /\ spc = "loop") => spc' \in {"loop", "stopped"}
  /\ spc' = "stopped" => shutdown

C15_NoCycleAfterShutdown == [][C15_Step]_vars

\* Scheduler.run has returned on a shutdown before the last cycle the model allows
C15_Witness == spc = "stopped" /\ shutdown /\ cycle \in 1 .. MaxCycles - 1

\* C16 (the steps): with the flag set, no time passes in the inter-cycle sleep
\* and no cycle is started.
C16_Step ==
  shutdown =>
    /\ timer' = timer \/ spc' # spc
    /\ cycle' = cycle
    /\ spc = "sleep" => spc' \in {"sleep", "loop"}

\* C16: once the flag is set Scheduler.run returns, without waiting out the
\* sleep and without another cycle.
C16_ShutdownIsLive == [][C16_Step]_vars /\ (shutdown ~> (spc = "stopped"))

\* the flag is set during the sleep, before its timeout has run out
C16_Witness == spc = "sleep" /\ shutdown /\ timer > 0 /\ cycle \in 1 .. MaxCycles - 1

\* C17 (the states): while an adapter is in process_cycle the scheduler is in
\* _run_platform_adapters, both watchdog tasks of the cycle have ended with an
\* outcome, and no run_cycle is executing, one that timed out included.
C17_AdapterAlone ==
  arun =>
    /\ spc = "adapters" /\ apc \in 1 .. MaxAdapters
    /\ \A w \in Workers :
         /\ rpc[w] = "idle" /\ wpc[w] = "idle"
         /\ Len(OutcomesOf(w)) = 1

\* C17 (the steps): an adapter is invoked only when no adapter is in
\* process_cycle, and the adapters are visited in the order of PLATFORM_ADAPTERS.
C17_Step ==
  /\ (arun' /\ ~arun) => apc' = apc + 1
  /\ arun => apc' \in {apc, 0}
  /\ apc' \in {apc, apc + 1, 0}

C17_AdaptersAfterWorkers == [][C17_Step]_vars /\ []C17_AdapterAlone

\* the second adapter is in process_cycle after the first returned, in a cycle
\* in which a run_cycle timed out
C17_Witness ==
  /\ arun /\ apc = 2
  /\ Truthy(platforms[1])
  /\ \E w \in Workers : OutcomesOf(w) = <<"worker_timeout">>

\* C18 (the steps): only an adapter whose "enabled" entry is true for bool()
\* is invoked, and when process_cycle raises the scheduler goes on to emit
\* cycle_completed.
C18_Step ==
  /\ (arun' /\ ~arun) => Truthy(platforms[apc'])
  /\ (arun /\ ~arun') => spc' \in {"adapters", "complete"}
  /\ (afail' /\ ~afail) => spc' = "complete"
  /\ platforms' = platforms

\* C18 (the states): Scheduler.run ends only on shutdown, an adapter that is in
\* process_cycle is an enabled one, and with the default configuration none is.
C18_LoopSurvives ==
  /\ spc = "stopped" => shutdown
  /\ arun => Truthy(platforms[apc])
  /\ \A i \in 1 .. MaxAdapters : platforms[i] \in {"absent", "false"} => ~(arun /\ apc = i)

C18_AdapterFailureCaught == [][C18_Step]_vars /\ []C18_LoopSurvives

\* an adapter raised in an earlier cycle, and in a later cycle the enabled
\* adapter is in process_cycle again while the one not enabled was passed over
C18_Witness ==
  /\ afail /\ cycle >= 2
  /\ arun /\ apc = 2
  /\ platforms[1] = "absent"

\* the value the configuration file gives field f is an integer in the range
\* the settings allow for f
InRange(f, n) ==
  CASE f = "interval_seconds" -> n > 0
    [] f = "jitter_seconds" -> n >= 0
    [] f = "worker_timeout_seconds" -> n > 0
    [] OTHER -> n >= 1

\* the setting in effect for field f once Scheduler.__init__ has returned: the
\* breakers hold their own threshold and cooldown
Effective(f) ==
  CASE f = "breaker_failure_threshold" -> breaker["terminal"].failure_threshold
    [] f = "breaker_cooldown_cycles" -> breaker["terminal"].cooldown_cycles
    [] OTHER -> startup.config[f]

\* C19: when every numeric field of the scheduler section is an integer,
\* Scheduler.__init__ does not fail, and once it has returned every setting in
\* effect is in range, both breakers hold the same settings, and a field given
\* in range has the value given.
C19_IntegerConfigClamped ==
  (\A f \in Fields : startup.raw[f].kind = "int") =>
    /\ startup.phase # "failed"
    /\ startup.phase = "constructed" =>
         /\ breaker["browser"] = breaker["terminal"]
         /\ \A f \in Fields :
              /\ InRange(f, Effective(f))
              /\ InRange(f, startup.raw[f].n) => Effective(f) = startup.raw[f].n

\* Scheduler.__init__ has returned for interval 0, jitter -1, timeout 2,
\* threshold 0 and cooldown 2
C19_Witness ==
  /\ startup.phase = "constructed"
  /\ startup.raw["interval_seconds"] = IntValue(0)
  /\ startup.raw["jitter_seconds"] = IntValue(-1)
  /\ startup.raw["worker_timeout_seconds"] = IntValue(2)
  /\ startup.raw["breaker_failure_threshold"] = IntValue(0)
  /\ startup.raw["breaker_cooldown_cycles"] = IntValue(2)
  /\ startup.config["interval_seconds"] = FallbackInterval
  /\ startup.config["jitter_seconds"] = FallbackJitter
  /\ startup.config["worker_timeout_seconds"] = 2
  /\ breaker["terminal"].failure_threshold = 1
  /\ breaker["terminal"].cooldown_cycles = 2

\* C20: Scheduler.__init__ never fails over a numeric field that int() does
\* not accept: it returns, with the field's default in effect.
C20_MalformedFallsBack ==
  /\ startup.phase # "failed"
  /\ startup.phase = "constructed" =>
       \A f \in Fields :
         startup.raw[f].kind = "malformed" => InRange(f, Effective(f))

\* ------------------------------------------------------------------- C21
\* a terminal action with a command that is empty or outside the allowlist
Rejected(i) ==
  /\ rows[i].worker = "terminal"
  /\ rows[i].payload.command \notin {"/bin/echo", "/usr/bin/printf"}

\* the run_cycle invocation that claimed action i has ended
Settled(w, i) == i \in Range(batch[w]) /\ rpc[w] = "idle"

C21_RejectedNeverRun ==
  \A i \in Ids(rows) : Rejected(i) => acts[i] = <<>>

C21_RejectedMarkedFailed ==
  \A i \in Ids(rows) :
    Rejected(i) /\ Settled("terminal", i) => rows[i].status = "failed"

\* C21: with dry_run true and with dry_run false, a terminal action whose
\* command is empty or whose executable is not in the allowlist is never
\* executed (no started event, no subprocess, no simulated run), and it is
\* marked failed by the worker invocation that claimed it.
C21_VettingPrecedesExecution ==
  C21_RejectedNeverRun /\ C21_RejectedMarkedFailed

\* ------------------------------------------------------------------- C22
IsActionEvent(e) == e \in {"action_started", "action_completed"}

\* started, completed, once per action
StartedCompleted(n) ==
  [k \in 1 .. 2 * n |-> IF k % 2 = 1 THEN "action_started" ELSE "action_completed"]

\* what was done with action i, the queuing apart
Execution(i) == SelectSeq(acts[i], LAMBDA a : a # "queued")

NoSubprocess == \A i \in ActIds : "subprocess" \notin Range(acts[i])

\* what a run_cycle that returned normally has emitted and left in the store:
\* it depends on the claimed batch alone, not on dry_run
SameAsRealRun(w) ==
  rpc[w] = "returned" =>
    /\ SelectSeq(emitted[w], IsActionEvent) = StartedCompleted(Len(batch[w]))
    /\ \A i \in Range(batch[w]) :
         /\ rows[i].status = "done"
         /\ Len(Execution(i)) = 3
         /\ Execution(i)[1] = "started"
         /\ Execution(i)[3] = "completed"

\* C22: with dry_run true no subprocess is ever run, and a run_cycle that
\* succeeds emits the started/completed events of its claimed actions in the
\* same sequence and leaves them in the same status (done) whether dry_run is
\* true or false.
C22_DryRunSimulates ==
  /\ dry_run => NoSubprocess
  /\ \A w \in Workers : SameAsRealRun(w)

C22_Witness ==
  /\ dry_run
  /\ rpc["terminal"] = "returned"
  /\ Len(batch["terminal"]) = 2
  /\ emitted["terminal"] =
       <<"action_queued", "action_started", "action_completed", "action_started", "action_completed">>
  /\ acts[batch["terminal"][1]] = <<"started", "sleep", "completed">>
  /\ acts[batch["terminal"][2]] = <<"queued", "started", "sleep", "completed">>

\* ------------------------------------------------------------------- C23
\* the first cycle of a run has completed and the watchdog reported both
\* workers as successful
FirstCycleSucceeded ==
  /\ cycle = 1 /\ spc = "sleep"
  /\ \A w \in Workers : Ev("worker_success", w) \in Range(events)

EventsOf(w) == SelectSeq(events, LAMBDA e : e.worker = w)

WorkerStory(w) ==
  <<Ev("action_queued", w), Ev("action_started", w), Ev("action_completed", w),
    Ev("worker_success", w)>>

SeededDone ==
  \E i \in Ids(rows) :
    /\ rows[i].idempotency_key = TerminalKey
    /\ rows[i].status = "done"
    /\ \A j \in Ids(rows) : rows[j].idempotency_key = TerminalKey => j = i

\* C23 as stated: after the first cycle on an empty store with dry_run true
\* the log is cycle_started, the terminal worker's queued, started and
\* completed events, then the browser worker's, then worker_success twice,
\* then cycle_completed, and the seeded terminal action is done.
C23_EndToEndInOrder ==
  FirstCycleSucceeded =>
    /\ \E a, b \in Workers :
         /\ a # b
         /\ events = <<Ev("cycle_started", "none"),
                       Ev("action_queued", "terminal"), Ev("action_started", "terminal"),
                       Ev("action_completed", "terminal"),
                       Ev("action_queued", "browser"), Ev("action_started", "browser"),
                       Ev("action_completed", "browser"),
                       Ev("worker_success", a), Ev("worker_success", b),
                       Ev("cycle_completed", "none")>>
    /\ SeededDone

\* C23 (amended): after such a cycle the log holds exactly ten events:
\* cycle_started first, cycle_completed last, and between them for each worker
\* its action_queued, started, completed and worker_success events in this
\* order, the events of the two workers interleaved in any way; the seeded
\* terminal action is done.
C23_EndToEndPerWorkerOrder ==
  FirstCycleSucceeded =>
    /\ Len(events) = 10
    /\ events[1] = Ev("cycle_started", "none")
    /\ events[10] = Ev("cycle_completed", "none")
    /\ \A w \in Workers : EventsOf(w) = WorkerStory(w)
    /\ SeededDone

\* a first cycle in which the browser worker's events come first
C23_Witness ==
  /\ FirstCycleSucceeded
  /\ events[2] = Ev("action_queued", "browser")
  /\ events[5] = Ev("worker_success", "browser")
  /\ events[6] = Ev("action_queued", "terminal")

\* ------------------------------------------------------------------- C24
InHand(i) == \E w \in Workers : i \in Range(batch[w]) \/ i \in Range(todo[w])

C24_Step ==
  \A i \in crash.orphans : rows'[i] = rows[i] /\ acts'[i] = acts[i]

C24_Kept ==
  \A i \in crash.orphans :
    /\ i \in Ids(rows)
    /\ rows[i].status = "processing"
    /\ ~InHand(i)

\* C24: an action that is in processing when the process is killed is still
\* in the table and still in processing after the restart and after every
\* later step of every later cycle: no claim_actions returns it, nothing is
\* executed for it again, and its row is never changed or deleted.
C24_CrashLeavesProcessing == [][C24_Step]_vars /\ []C24_Kept

\* a browser action was in processing at the kill, and the cycle after the
\* restart has claimed another one and completed
C24_Witness ==
  /\ crash.kills = 1
  /\ spc = "sleep" /\ cycle = 2
  /\ \E i \in crash.orphans :
       /\ rows[i].worker = "browser"
       /\ batch["browser"] # <<>>
       /\ rows[batch["browser"][1]].status = "done"

\* ------------------------------------------------------------------- C26
\* the rows that hold the terminal worker's seeded command
SeedRows == {i \in Ids(rows) : rows[i].worker = "terminal" /\ rows[i].payload = EchoCommand}

Count(s, a) == Len(SelectSeq(s, LAMBDA x : x = a))

C26_Step ==
  /\ SeedRows \subseteq SeedRows'
  /\ (rpc["terminal"] = "seed" /\ rpc'["terminal"] # "seed" /\ crash' = crash)
       => Cardinality(SeedRows') = 1

C26_Once ==
  /\ Cardinality(SeedRows) <= 1
  /\ \A i, j \in Ids(rows) : rows[i].idempotency_key = rows[j].idempotency_key => i = j
  /\ \A i \in SeedRows :
       /\ Count(acts[i], "queued") <= 1
       /\ Count(acts[i], "started") <= 1
       /\ Count(acts[i], "sleep") + Count(acts[i], "subprocess") <= 1

\* C26: over cycles and restarts on the same store the terminal worker's
\* seeded command has one row: every _seed_default_actions leaves exactly one,
\* no step removes it or adds a second, action_queued is emitted for it at
\* most once and it is executed at most once; no two rows share a key.
C26_NeverDoubleQueued == [][C26_Step]_vars /\ []C26_Once

\* the process was killed and started again, and the terminal worker's cycle
\* after the restart seeded again and found nothing to claim
C26_Witness ==
  /\ crash.kills = 1
  /\ cycle = 2
  /\ rpc["terminal"] = "returned"
  /\ batch["terminal"] = <<>>
  /\ ops["terminal"] = 2
  /\ \E i \in SeedRows : acts[i] = <<"queued", "started", "sleep", "completed">>

\* ------------------------------------------------------------------- C25
Interval == startup.config["interval_seconds"]

\* the time from the cycle_started of the cycle just slept through to now
Gap == pace.elapsed + pace.slept

\* a step that emits cycle_started
Starts == cycle' = cycle + 1

C25_Step ==
  /\ Starts => pace'.jitter \in 0 .. startup.config["jitter_seconds"]
  /\ (spc = "complete" /\ spc' = "sleep") =>
       /\ timer' >= 0
       /\ timer' = Max(Interval + pace.jitter - pace'.elapsed, 0)
  /\ (Starts /\ cycle >= 1) =>
       /\ Gap = Max(Interval + pace.jitter, pace.elapsed)
       /\ (Interval = 60 /\ pace.jitter = 0 /\ pace.elapsed = 2) => Gap = 60
       /\ pace.elapsed >= Interval + pace.jitter => pace.slept = 0

\* C25: each cycle draws a jitter in 0 .. jitter_seconds and sleeps
\* max(interval_seconds + jitter - elapsed, 0), never a negative time, so the
\* next cycle_started comes max(interval_seconds + jitter, elapsed) after the
\* previous one: 60 with interval 60, jitter 0 and a cycle that took 2, and
\* with no sleep at all when the cycle took longer than the target.
C25_Cadence == [][C25_Step]_vars

\* interval 60, jitter 0, a cycle that took 2 and a sleep of 58 that has just ended
C25_Witness ==
  /\ spc = "loop" /\ ~shutdown /\ cycle = 1
  /\ Interval = 60
  /\ startup.config["jitter_seconds"] = 0
  /\ pace.elapsed = 2
  /\ pace.slept = 58

\* ------------------------------------------------------------------- C27
\* caller t executes the UPDATE of mark_action_status
Marks(t) ==
  /\ call[t].op = "mark_action_status"
  /\ call[t].pc = "update"
  /\ call'[t].pc = "release"

C27_Step ==
  \A t \in Callers :
    Marks(t) =>
      LET id == call[t].id
          status == call[t].status
      IN /\ DOMAIN rows' = DOMAIN rows
         /\ \A i \in Ids(rows) : i # id => rows'[i] = rows[i]
         /\ id \in Ids(rows) =>
              /\ rows'[id].status = status
              /\ rows'[id].idempotency_key = rows[id].idempotency_key
              /\ rows'[id].payload = rows[id].payload
              /\ rows'[id].worker = rows[id].worker
              /\ rows[id].status = status => rows' = rows
         /\ id \notin Ids(rows) => rows' = rows

\* C27: mark_action_status(id, status) sets the status of the row with that
\* id, whatever it was, and changes nothing else: no other row, no other
\* column, no row added or removed. A second call with the same id and status
\* therefore leaves the table as the first left it, and a call with an id of
\* no row changes nothing and returns normally.
C27_MarkIdempotent == [][C27_Step]_vars

\* a call has just updated a row that already had the status it sets, while
\* the table holds another row
C27_Witness ==
  \E t \in Callers :
    /\ call[t].op = "mark_action_status"
    /\ call[t].pc = "release"
    /\ call[t].prev = call[t].status
    /\ call[t].id \in Ids(rows)
    /\ rows[call[t].id].status = call[t].status
    /\ Len(rows) = 2

\* ------------------------------------------------------------------- C28
\* caller t executes the statement of set_memory / the SELECT of get_memory
Sets(t) == call[t].op = "set_memory" /\ call[t].pc = "upsert" /\ call'[t].pc = "release"
Gets(t) == call[t].op = "get_memory" /\ call[t].pc = "read" /\ call'[t].pc = "release"

\* set_memory(k, v) changes the row of k alone, and no queued action
SetTouchesOnlyItsKey(t) ==
  Sets(t) =>
    /\ \A k \in MemKeys \ {call[t].mkey} : memory'[k] = memory[k]
    /\ rows' = rows

\* get_memory(k, d) of a key that was set returns the document last set
GetReturnsLastSet(t) ==
  (Gets(t) /\ ~lastSet[call[t].mkey].none) => call'[t].out = lastSet[call[t].mkey].doc

C28_StepAsStated ==
  \A t \in Callers :
    /\ SetTouchesOnlyItsKey(t)
    /\ GetReturnsLastSet(t)
    /\ (Gets(t) /\ lastSet[call[t].mkey].none) =>
         /\ ~call[t].default.none
         /\ call'[t].out = call[t].default.doc

\* C28 as stated: get_memory(k, d) returns the document of the most recent
\* set_memory(k, v), or the default d when k was never set; set_memory(k, v)
\* changes no other key and no queued action.
C28_LastWriteWinsOrDefault == [][C28_StepAsStated]_vars

C28_Step ==
  \A t \in Callers :
    /\ SetTouchesOnlyItsKey(t)
    /\ GetReturnsLastSet(t)
    /\ (Gets(t) /\ lastSet[call[t].mkey].none) =>
         call'[t].out = IF call[t].default.none THEN EmptyDoc ELSE call[t].default.doc

\* C28 (amended): get_memory(k, d) returns the document of the most recent
\* set_memory(k, v), or, when k was never set, the default d if d is a
\* document and the empty document if d is None; set_memory(k, v) changes no
\* other key and no queued action.
C28_LastWriteWins == [][C28_Step]_vars

\* a key was set twice with different documents, the other key once, and a
\* get_memory of the first has just read the second document
C28_Witness ==
  \E t \in Callers :
    /\ call[t].op = "get_memory" /\ call[t].pc = "release"
    /\ call[t].mkey = "notes"
    /\ lastSet["browser.tasks"] = Some([f \in {"cursor"} |-> 1])
    /\ lastSet["notes"] = Some([f \in {"cursor", "page"} |-> IF f = "page" THEN 1 ELSE 0])
    /\ call[t].out = lastSet["notes"].doc
    /\ call[t].default = Some(EmptyDoc)

\* ------------------------------------------------------------------- C29
\* the file before the step is a prefix of the file after it
LogIsPrefix ==
  /\ Len(tracer'.file) >= Len(tracer.file)
  /\ SubSeq(tracer'.file, 1, Len(tracer.file)) = tracer.file

\* what thread t's emit has added to the file since it took the lock
Added(t) == SubSeq(tracer.file, tracer.at[t].base + 1, Len(tracer.file))

\* the pieces of one record, in order and with nothing between them
OneRecord(t) ==
  {<<[by |-> t, rec |-> tracer.at[t].rec, part |-> "whole"]>>,
   <<[by |-> t, rec |-> tracer.at[t].rec, part |-> "head"],
     [by |-> t, rec |-> tracer.at[t].rec, part |-> "tail"]>>}

\* an emit that returns has added exactly one whole record at the end of the file
EmitsOneRecord ==
  \A t \in Threads :
    (tracer.at[t].pc = "release" /\ tracer'.at[t].pc = "idle") => Added(t) \in OneRecord(t)

C29_Step == LogIsPrefix /\ EmitsOneRecord

\* every line of the file is the pieces of one record: a first piece is
\* followed at once by the second piece of the same record, unless it is the
\* end of the file and its writer is still writing
WholeLines ==
  \A i \in 1 .. Len(tracer.file) :
    /\ tracer.file[i].part = "head" =>
         IF i = Len(tracer.file)
           THEN tracer.at[tracer.file[i].by].pc = "tail"
           ELSE tracer.file[i + 1] = [tracer.file[i] EXCEPT !.part = "tail"]
    /\ tracer.file[i].part = "tail" =>
         i > 1 /\ tracer.file[i - 1] = [tracer.file[i] EXCEPT !.part = "head"]

\* C29: the event log is append-only under concurrent writers: every emit
\* appends exactly one whole record, the log after any step has the
\* previous log as a prefix, and the records of two threads never interleave
\* within a line.
C29_AppendOnlyWholeLines == [][C29_Step]_vars /\ []WholeLines

\* three threads have emitted; one line reached the file in two pieces while
\* the other threads were emitting, and every emit has returned
C29_Witness ==
  /\ Len(tracer.file) = 4
  /\ tracer.lock = "free"
  /\ tracer.file[1].part = "whole"
  /\ tracer.file[2].part = "head"
  /\ tracer.file[3].part = "tail"
  /\ tracer.file[4].part = "whole"
  /\ Cardinality({tracer.file[i].by : i \in 1 .. 4}) = 3

\* ------------------------------------------------------------------- C30
\* a store operation of w's run_cycle has raised in this cycle
StorageFailed(w) == xfail[w].store

\* the failure leaves run_cycle: run_cycle is in its except clause, has
\* raised, or has been collected by the watchdog task; it never returns normally
LeavesRunCycle(w) == rpc[w] \in {"mark_failed", "raised", "idle"}

\* a store operation has raised in the cycle that the loop is running
FailedInCycle == spc = "join" /\ \E w \in Workers : StorageFailed(w)

\* the cycle after StartCycle: nothing of it has run yet
CycleStarted == spc = "join" /\ \A w \in Workers : wpc[w] = "check"

\* the loop goes on after the failure: in the same cycle (the history of the
\* failure is kept until the next one starts) both watchdog tasks end with an
\* outcome and the enabled adapter is invoked, and the next cycle starts
Continues ==
  /\ FailedInCycle
       ~> (arun /\ (\E w \in Workers : StorageFailed(w))
                /\ \A x \in Workers : OutcomesOf(x) # <<>>)
  /\ (FailedInCycle /\ cycle < MaxCycles) ~> CycleStarted

ReportedAsFailure ==
  \A w \in Workers :
    StorageFailed(w) =>
      /\ LeavesRunCycle(w)
      /\ Ended(w) =>
           bcalls[w] = <<"can_run", "fail">> /\ OutcomesOf(w) = <<"worker_failure">>

\* C30 (as stated): a storage failure raised by a store operation inside a
\* worker cycle propagates out of run_cycle and is treated like any other
\* worker execution failure: fail() on the breaker and worker_failure for
\* that worker; the loop continues with the sibling worker, the adapters and
\* later cycles.
C30_StorageFailureIsWorkerFailure == []ReportedAsFailure /\ Continues

ReportedOnce ==
  \A w \in Workers :
    StorageFailed(w) =>
      /\ LeavesRunCycle(w)
      /\ OutcomesOf(w) \in {<<>>, <<"worker_failure">>, <<"worker_timeout">>}
      /\ OutcomesOf(w) = <<"worker_timeout">> => wpc[w] # "wait"
      /\ Ended(w) =>
           bcalls[w] = <<"can_run", "fail">> /\ OutcomesOf(w) # <<>>

\* the watchdog task that was still waiting when run_cycle raised records a failure
C30_Step ==
  \A w \in Workers :
    (StorageFailed(w) /\ rpc[w] = "raised" /\ wpc[w] = "wait" /\ wpc'[w] # "wait") =>
      /\ bcalls'[w] = <<"can_run", "fail">>
      /\ emitted'[w] = Append(emitted[w], "worker_failure")
      /\ breaker'[w] = Fail(breaker[w])

\* C30 (amended): a storage failure raised by a store operation inside a
\* worker cycle propagates out of run_cycle. The watchdog task ends with
\* exactly one fail() and one outcome: worker_failure when it was still
\* waiting for run_cycle, worker_timeout when the timeout was recorded before
\* run_cycle raised. The loop continues with the sibling worker, the adapters
\* and later cycles.
C30_StorageFailurePropagates == []ReportedOnce /\ [][C30_Step]_vars /\ Continues

\* a store operation of one worker raised in the first cycle: that worker
\* ended with fail() and worker_failure, its sibling with worker_success, the
\* adapters have been run and the loop sleeps before the next cycle
C30_Witness ==
  \E w \in Workers, s \in Workers :
    /\ w # s
    /\ cycle = 1 /\ spc = "sleep"
    /\ StorageFailed(w) /\ ~StorageFailed(s)
    /\ bcalls[w] = <<"can_run", "fail">> /\ OutcomesOf(w) = <<"worker_failure">>
    /\ bcalls[s] = <<"can_run", "success">> /\ OutcomesOf(s) = <<"worker_success">>
    /\ breaker[w].failures = 1

\* ------------------------------------------------------------------- C31
\* thread t is inside a store operation
InStore(t) == call[t].pc # "idle"

\* worker w is executing an action (vetting, events, side effect)
Executing(w) == rpc[w] \in {"exec_start", "exec_run"}

\* a thread inside a store operation holds the store lock, so no two are
\* inside, and the lock is held by nobody else
OneInside ==
  /\ \A t \in Threads : InStore(t) <=> lock = t
  /\ \A t \in Threads, u \in Threads : (InStore(t) /\ InStore(u)) => t = u

\* the lock is not held while an action is executed, and the sibling's store
\* call can go ahead
NotHeldWhileExecuting ==
  \A w \in Workers :
    Executing(w) =>
      /\ ~InStore(w) /\ lock # w
      /\ \A s \in Workers \ {w} :
           (rpc[s] \in StorePcs /\ wpc[s] = "wait" /\ ~InStore(s)) => ENABLED WorkerCall(s)

\* from the first statement of an operation to its return, the tables are
\* changed by nobody but the thread inside, and the lock stays with it
C31_Step ==
  \A t \in Threads :
    (InStore(t) /\ InStore(t)') =>
      /\ lock' = t
      /\ \A u \in Threads \ {t} : call'[u] = call[u]

\* C31: no two threads are inside a store operation at the same time, the
\* read and the write of claim_actions and of queue_action happen within one
\* lock acquisition, and the store lock is never held while a worker
\* executes an action, so a slow action never blocks the sibling's store calls.
C31_StoreMutualExclusion ==
  []OneInside /\ []NotHeldWhileExecuting /\ [][C31_Step]_vars

\* one worker is in the side effect of an action while its sibling is between
\* the SELECT and the UPDATE of claim_actions, holding the lock
C31_Witness ==
  \E w \in Workers, s \in Workers :
    /\ rpc[w] = "exec_run"
    /\ call[s].op = "claim_actions" /\ call[s].pc = "flip"
    /\ call[s].sel # <<>>
    /\ lock = s

\* ------------------------------------------------------------------- C32
\* the step executes a method of the breaker of worker w
BreakerTouched(w) == breaker'[w] # breaker[w] \/ Len(bcalls'[w]) > Len(bcalls[w])

\* the step is one of the scheduler's thread (the loop of Scheduler.run), of
\* the watchdog task of worker w (a thread of the pool of two), of the
\* run_cycle of worker w (the thread of its pool of one)
SchedulerStep == spc' # spc
TaskStep(w) == wpc'[w] # wpc[w]
RunCycleMoves(w) == rpc'[w] # rpc[w] /\ wpc'[w] = wpc[w]

\* a new cycle starts: every watchdog task of the cycle before has ended
NoTaskLeft == cycle' # cycle => \A w \in Workers : wpc[w] = "idle" /\ rpc[w] = "idle"

C32_StepAsStated ==
  /\ NoTaskLeft
  /\ \A w \in Workers : BreakerTouched(w) => \A x \in Workers : ~TaskStep(x)

\* C32 (as stated): no breaker's can_run(), success() or fail() is executed
\* by a pool/task thread, and no breaker is accessed by two threads at the
\* same time.
C32_BreakerOwnedByScheduler == [][C32_StepAsStated]_vars

C32_Step ==
  /\ NoTaskLeft
  /\ \A w \in Workers :
       BreakerTouched(w) =>
         /\ TaskStep(w) /\ ~SchedulerStep
         /\ \A x \in Workers \ {w} : ~TaskStep(x) /\ ~BreakerTouched(x)
         /\ \A x \in Workers : ~RunCycleMoves(x)

\* C32 (amended): the methods of the breaker of a worker are executed by the
\* watchdog task of that worker, a thread of the scheduler's pool, and by no
\* other thread: not the scheduler's loop, not a run_cycle, not the task of
\* the sibling. A cycle has one such task per worker and starts only when
\* the tasks of the cycle before have ended, so no breaker is accessed by
\* two threads at the same time.
C32_BreakerOwnedByItsTask == [][C32_Step]_vars

\* both watchdog tasks have called their breaker in a first cycle, one fail()
\* and one success(), and the scheduler's loop is still waiting for them; in
\* a second cycle the breaker that counted the failure is called again
C32_Witness ==
  \E w \in Workers, s \in Workers :
    /\ cycle = 2 /\ spc = "join"
    /\ breaker[w].failures = 1
    /\ bcalls[w] = <<"can_run", "fail">>
    /\ bcalls[s] = <<"can_run", "success">>
    /\ wpc[w] = "finished" /\ wpc[s] = "finished"

\* ------------------------------------------------------------------- C33
\* in its n-th cycle the worker was attempted (its run_cycle was started)
Attempted(n) == hist[n].res

\* the worker failed in every cycle in which it was attempted
FailsWhenAttempted == \A n \in DOMAIN hist : Attempted(n) => hist[n].call # "worker_success"

\* failure_threshold attempts, cooldown_cycles skips, and again
InPattern(n) == ((n - 1) % (B.failure_threshold + B.cooldown_cycles)) < B.failure_threshold

\* no cooldown_cycles + 1 cycles in a row without an attempt, and the breaker
\* is at most cooldown_cycles checks away from the next one
NeverSkippedForever ==
  /\ \A n \in DOMAIN hist :
       n + B.cooldown_cycles \in DOMAIN hist =>
         \E m \in n .. n + B.cooldown_cycles : Attempted(m)
  /\ B.cooldown_remaining <= B.cooldown_cycles

\* C33: with one can_run() per worker per cycle, a worker that fails in every
\* cycle in which it is attempted is attempted for failure_threshold cycles,
\* skipped for exactly cooldown_cycles cycles, attempted again, and so on;
\* whatever the outcomes, a worker is never skipped forever.
C33_TripSkipRetryPattern ==
  /\ FailsWhenAttempted => \A n \in DOMAIN hist : Attempted(n) <=> InPattern(n)
  /\ NeverSkippedForever

\* threshold 2, cooldown 1, six cycles of a worker that always fails: two
\* attempts, one skip, two attempts, one skip
C33_Witness ==
  /\ B.failure_threshold = 2 /\ B.cooldown_cycles = 1
  /\ Len(hist) = 6
  /\ FailsWhenAttempted
  /\ \A n \in {1, 2, 4, 5} : Attempted(n)
  /\ ~Attempted(3) /\ ~Attempted(6)
  /\ hist[1].call = "worker_timeout" /\ hist[2].call = "worker_failure"

\* ------------------------------------------------------------------- C34
\* the counters of the breaker stay in their ranges
BreakerInRange ==
  /\ 0 <= B.failures /\ B.failures < B.failure_threshold
  /\ 0 <= B.cooldown_remaining /\ B.cooldown_remaining <= B.cooldown_cycles

\* the step is a call of the method named m
Calls(m) == Len(hist') = Len(hist) + 1 /\ Last(hist').call = m

C34_Step ==
  /\ Calls("can_run") => breaker'[Probe].failures = B.failures
  /\ Calls("success") => breaker'[Probe].cooldown_remaining = B.cooldown_remaining

\* C34: after any sequence of can_run(), success() and fail() calls,
\* 0 <= failures < failure_threshold and 0 <= cooldown_remaining <=
\* cooldown_cycles; can_run() never changes failures and success() never
\* changes cooldown_remaining.
C34_BreakerCountersInRange == []BreakerInRange /\ [][C34_Step]_vars

\* threshold 2, cooldown 2: a failure, a check that leaves the count at 1, the
\* failure that trips the breaker, and a success that leaves the cooldown at 2
C34_Witness ==
  /\ B.failure_threshold = 2 /\ B.cooldown_cycles = 2
  /\ Len(hist) = 4
  /\ hist[1].call = "fail" /\ hist[2].call = "can_run" /\ hist[2].res = TRUE
  /\ hist[3].call = "fail" /\ hist[4].call = "success"
  /\ B.failures = 0 /\ B.cooldown_remaining = 2

\* ------------------------------------------------------------------- C35
\* a run_cycle invocation of worker w exists: started and not yet collected
InFlight(w) == rpc[w] # "idle"

\* an invocation is in flight only while the scheduler's loop waits for the
\* watchdog tasks, and its own task is waiting for it: not when
\* cycle_completed is emitted, not when the next cycle starts
OnlyWhileAwaited ==
  \A w \in Workers : InFlight(w) => spc = "join" /\ wpc[w] \in {"wait", "joining"}

\* run_cycle is started for a worker that has no invocation in flight, and a
\* cycle is started and completed when no worker has one
C35_Step ==
  /\ \A w \in Workers : (InFlight(w)' /\ ~InFlight(w)) => (wpc[w] = "check" /\ spc = "join")
  /\ \A w \in Workers : (rpc'[w] = FirstPc(w) /\ rpc[w] # FirstPc(w)) => ~InFlight(w)
  /\ (cycle' # cycle \/ (spc = "complete" /\ spc' = "sleep")) =>
       \A w \in Workers : ~InFlight(w)

\* C35: at most one run_cycle invocation per worker is in flight, also after
\* a watchdog timeout: cycle_completed is not emitted and the next cycle is
\* not started while an invocation of the current cycle is executing, so no
\* invocation overlaps the next one of the same worker.
C35_OneRunCyclePerWorker == []OnlyWhileAwaited /\ [][C35_Step]_vars

\* the watchdog timeout of a worker has been recorded, its run_cycle is still
\* executing an action, the sibling's task is over, and the loop waits
C35_Witness ==
  \E w \in Workers, s \in Workers :
    /\ w # s
    /\ wpc[w] = "joining" /\ rpc[w] = "exec_run"
    /\ OutcomesOf(w) = <<"worker_timeout">>
    /\ wpc[s] = "finished"
    /\ spc = "join" /\ cycle = 2

\* ------------------------------------------------------------------- C36
\* the persisted cursor of the browser worker, as _extract_tasks reads it
PersistedCursor == GetMemory(memory, "browser.tasks", Some(CursorDoc(0)))["cursor"]

\* the rows of browser tasks
BrowserRows == {i \in Ids(rows) : rows[i].worker = "browser"}

\* run_cycle has persisted cursor c + 1 and is about to queue the task with cursor c
AboutToQueue(c) == rpc["browser"] = "queue" /\ task = c

\* every cursor the persisted cursor has passed has its row, or is being queued
EveryTaskQueued ==
  \A c \in 0 .. PersistedCursor - 1 :
    AboutToQueue(c) \/ \E i \in BrowserRows : rows[i].payload.cursor = c

\* the cursors of the browser actions are distinct and grow with the id
CursorsIncrease ==
  \A i \in BrowserRows, j \in BrowserRows :
    i < j => rows[i].payload.cursor < rows[j].payload.cursor

\* C36: whenever the persisted browser cursor has been advanced from c to
\* c + 1 there is a queued_actions row for the browser task with cursor c,
\* also when run_cycle is cut short by a storage failure; the cursors of the
\* browser actions are pairwise distinct and increase with the action id.
C36_NoBrowserTaskLost == EveryTaskQueued /\ CursorsIncrease

\* ------------------------------------------------------------------- C37
IsCall(i, op, res) == adapter.calls[i] = [op |-> op, res |-> res]

\* before the call at i: health_check returned true, then login returned true
\* if the adapter can log in, then the policy allowed the draft; the cycle is
\* not a dry run and the adapter can post
PostGuarded(i) ==
  /\ \E h, e \in 1 .. i - 1 :
       /\ h < e
       /\ IsCall(h, "health_check", "true")
       /\ IsCall(e, "evaluate", "true")
       /\ adapter.capabilities.can_login =>
            \E l \in h + 1 .. e - 1 : IsCall(l, "login", "true")
  /\ Evaluate(adapter.draft)
  /\ ~dry_run
  /\ adapter.capabilities.can_post

\* C37: process_cycle fails closed: every call of post() comes after
\* health_check() returned true, then login returned true (when can_login),
\* then the content safety policy allowed the draft, in a cycle whose dry_run
\* is false and whose adapter has can_post; on every other path the cycle
\* ends without a call of post().
C37_PostOnlyWhenCleared ==
  \A i \in DOMAIN adapter.calls : adapter.calls[i].op = "post" => PostGuarded(i)

\* a cycle that posted at the second attempt, after a login that was retried
C37_Witness ==
  /\ adapter.pc = "returned"
  /\ adapter.capabilities.can_login
  /\ adapter.draft = Text(<<"sp", "hi", "sp">>)
  /\ \E i \in DOMAIN adapter.calls : IsCall(i, "login", "raise")
  /\ Len(adapter.calls) > 2
  /\ IsCall(Len(adapter.calls) - 1, "post", "raise")
  /\ IsCall(Len(adapter.calls), "post", "true")

\* ------------------------------------------------------------------- C38
\* the calls _with_retry made of the method op, in order
Attempts(op) == SelectSeq(adapter.calls, LAMBDA c : c.op = op)

\* the place in the history of the latest call of op
LastCall(op) ==
  CHOOSE i \in DOMAIN adapter.calls :
    /\ adapter.calls[i].op = op
    /\ \A j \in DOMAIN adapter.calls : adapter.calls[j].op = op => j <= i

\* the method is called at most max_retries + 1 times, and a call is made
\* only after calls that raised
BoundedAttempts(op) ==
  /\ Len(Attempts(op)) <= adapter.rate_limit_policy.max_retries + 1
  /\ \A i \in 1 .. Len(Attempts(op)) - 1 : Attempts(op)[i].res = "raise"

\* _with_retry returned what the one call that did not raise returned
ReturnsFirstSuccess ==
  adapter.retry.at = "returned" =>
    LET tries == Attempts(adapter.retry.name)
    IN /\ tries # <<>>
       /\ tries[Len(tries)].res # "raise"
       /\ adapter.retry.ret = tries[Len(tries)].res
       /\ adapter.retry.attempt = Len(tries) - 1

\* _with_retry raised: max_retries + 1 calls, all raised, and the exception
\* that leaves is that of the last one
ReraisesLast ==
  adapter.retry.at = "raised" =>
    LET tries == Attempts(adapter.retry.name)
    IN /\ Len(tries) = adapter.rate_limit_policy.max_retries + 1
       /\ \A i \in DOMAIN tries : tries[i].res = "raise"
       /\ adapter.retry.exc = LastCall(adapter.retry.name)
       /\ adapter.raised = adapter.retry.exc
       /\ adapter.pc = "raised"

\* it goes on only while fewer than max_retries + 1 calls have raised
GivesUp ==
  adapter.retry.at \in {"limit", "call", "backoff"} =>
    /\ adapter.retry.attempt <= adapter.rate_limit_policy.max_retries
    /\ adapter.retry.attempt = Len(Attempts(adapter.retry.name))

BackoffCapped ==
  /\ adapter.retry.backoff <= adapter.rate_limit_policy.max_backoff_seconds
  /\ adapter.retry.slept <= adapter.rate_limit_policy.max_backoff_seconds + MaxJitter

RetryInv ==
  /\ \A op \in Retried : BoundedAttempts(op)
  /\ ReturnsFirstSuccess
  /\ ReraisesLast
  /\ GivesUp
  /\ BackoffCapped

InRetry == adapter.retry.at \in {"limit", "call", "backoff"}
RetryOver == adapter.retry.at \in {"returned", "raised"}

\* C38: _with_retry terminates, given that every call of the action and every
\* sleep ends: it calls the action at most max_retries + 1 times, returns the
\* result of the first call that does not raise and calls no more, raises the
\* exception of the last call again once max_retries + 1 calls have raised,
\* and each backoff, before its jitter, is at most max_backoff_seconds.
C38_RetryTerminates == []RetryInv /\ (InRetry ~> RetryOver)

\* max_retries 1, a backoff capped from the first failure: login returned at
\* its second call, then post raised twice and its second exception left
C38_Witness ==
  /\ adapter.rate_limit_policy =
       [max_retries |-> 1, backoff_base_seconds |-> 3, max_backoff_seconds |-> 2]
  /\ adapter.retry.at = "raised"
  /\ adapter.retry.name = "post"
  /\ adapter.retry.backoff = 2
  /\ Len(Attempts("login")) = 2
  /\ Attempts("login")[2].res = "true"
  /\ adapter.raised = Len(adapter.calls)
====
